---- MODULE Spec2Model ----
(***************************************************************************)
(* State-machine model of the educational EVM interpreter                  *)
(* (src/src/machine.rs, src/src/opcodes.rs).                               *)
(*                                                                         *)
(* A 256-bit word (U256) is a sequence of WORD_BYTES bytes, big-endian, so *)
(* that arithmetic wraps at 2^256 exactly as in the code.  The recursion   *)
(* of child.run() inside the CALL/CREATE handlers is an explicit stack of  *)
(* frames: frames[1] is the top-level Evm, frames[Len(frames)] is the Evm  *)
(* whose run() loop is executing; the frames below it are blocked inside   *)
(* their call handler with the handler's locals saved in `pending`.        *)
(***************************************************************************)
EXTENDS Integers, Sequences, FiniteSets, TLC

VARIABLES
  frames,  \* the stack of Evm frames, the executing one last
  prev,    \* history: the value of frames before the last transition
  cfg0,    \* the program and EvmConfig the top-level Evm was built from
  burned   \* history: the gas all frames have consumed so far, summed

vars == <<frames, prev, cfg0, burned>>

(***************************************************************************)
(* Opcode bytes (src/src/opcodes.rs)                                       *)
(***************************************************************************)
STOP == 0
ADD == 1
MUL == 2
SUB == 3
DIV == 4
LT == 16
GT == 17
EQ == 20
ISZERO == 21
AND == 22
OR == 23
XOR == 24
NOT == 25
SHA3 == 32
ADDRESS == 48
BALANCE == 49
ORIGIN == 50
CALLER == 51
CALLVALUE == 52
CALLDATALOAD == 53
CALLDATASIZE == 54
CALLDATACOPY == 55
CODESIZE == 56
CODECOPY == 57
GASPRICE == 58
EXTCODESIZE == 59
EXTCODECOPY == 60
RETURNDATASIZE == 61
RETURNDATACOPY == 62
EXTCODEHASH == 63
BLOCKHASH == 64
COINBASE == 65
TIMESTAMP == 66
NUMBER == 67
DIFFICULTY_PRAND == 68
GASLIMIT_OP == 69
CHAINID == 70
SELFBALANCE == 71
BASEFEE == 72
POP == 80
MLOAD == 81
MSTORE == 82
MSTORE8 == 83
SLOAD == 84
SSTORE == 85
JUMP == 86
JUMPI == 87
PC == 88
MSIZE == 89
GAS == 90
JUMPDEST == 91
PUSH0 == 95
PUSH1 == 96
PUSH32 == 127
DUP1 == 128
DUP16 == 143
SWAP1 == 144
SWAP16 == 159
LOG0 == 160
LOG4 == 164
CREATE == 240
CALL == 241
CALLCODE == 242
RETURN == 243
DELEGATECALL == 244
CREATE2 == 245
STATICCALL == 250
REVERT == 253

STACK_LIMIT == 1024

(***************************************************************************)
(* U256 and H160 as big-endian byte sequences                              *)
(***************************************************************************)
WORD_BYTES == 32
ADDR_BYTES == 20

Min(a, b) == IF a < b THEN a ELSE b
Max(a, b) == IF a > b THEN a ELSE b

\* The gas one transition takes from the frame that executes it: the deepest
\* frame present both before and after (the caller when a child frame is
\* pushed or popped). A new child has consumed nothing yet. gas_dec
\* subtracts before it checks, so a failing charge leaves gas negative; a
\* frame is counted as consuming no more than it had.
GasUsed(after) ==
  LET i == Min(Len(frames), Len(after))
  IN Max(0, frames[i].gas) - Max(0, after[i].gas)

\* the sequence with the elements of the function f on 1..n, evaluated once
Mk(f) == SubSeq(f, 1, Len(f))

Zeros(n) == Mk([i \in 1..n |-> 0])

\* U256::zero(), U256::one()
WZero == Zeros(WORD_BYTES)
WOne == Mk([i \in 1..WORD_BYTES |-> IF i = WORD_BYTES THEN 1 ELSE 0])

\* U256::from(n) for a machine integer 0 <= n < 2^31
WFromInt(n) ==
  Mk([i \in 1..WORD_BYTES |->
     CASE i = WORD_BYTES     -> n % 256
       [] i = WORD_BYTES - 1 -> (n \div 256) % 256
       [] i = WORD_BYTES - 2 -> (n \div 65536) % 256
       [] i = WORD_BYTES - 3 -> (n \div 16777216) % 256
       [] OTHER              -> 0])

\* U256::from_big_endian(slice) for a slice of at most 32 bytes: the slice is
\* right-aligned (least significant end) and zero-extended on the left.
WFromBE(bs) ==
  Mk([i \in 1..WORD_BYTES |->
     IF i > WORD_BYTES - Len(bs) THEN bs[i - (WORD_BYTES - Len(bs))] ELSE 0])

WIsZero(w) == \A i \in 1..WORD_BYTES : w[i] = 0

\* carry into byte i of a + b: some lower byte generates a carry and every
\* byte between propagates it
CarryIn(a, b, i) ==
  \E j \in (i + 1)..Len(a) :
     /\ a[j] + b[j] > 255
     /\ \A k \in (i + 1)..(j - 1) : a[k] + b[k] = 255

\* borrow out of byte i + 1 of a - b
BorrowIn(a, b, i) ==
  \E j \in (i + 1)..Len(a) :
     /\ a[j] < b[j]
     /\ \A k \in (i + 1)..(j - 1) : a[k] = b[k]

\* a.overflowing_add(b).0
WAdd(a, b) ==
  Mk([i \in 1..WORD_BYTES |->
     (a[i] + b[i] + (IF CarryIn(a, b, i) THEN 1 ELSE 0)) % 256])

\* a.overflowing_sub(b).0
WSub(a, b) ==
  Mk([i \in 1..WORD_BYTES |->
     (a[i] - b[i] - (IF BorrowIn(a, b, i) THEN 1 ELSE 0) + 256) % 256])

\* a < b on U256
WLt(a, b) ==
  \E i \in 1..WORD_BYTES :
     /\ a[i] < b[i]
     /\ \A j \in 1..(i - 1) : a[j] = b[j]

WGt(a, b) == WLt(b, a)
WGe(a, b) == ~WLt(a, b)

WBool(p) == IF p THEN WOne ELSE WZero

\* bitwise operators on one byte
RECURSIVE BitOp(_, _, _, _)
BitOp(kind, x, y, n) ==
  IF n = 0 THEN 0
  ELSE LET bx == x % 2
           by == y % 2
           r  == CASE kind = "and" -> IF bx = 1 /\ by = 1 THEN 1 ELSE 0
                   [] kind = "or"  -> IF bx = 1 \/ by = 1 THEN 1 ELSE 0
                   [] kind = "xor" -> IF bx # by THEN 1 ELSE 0
       IN r + 2 * BitOp(kind, x \div 2, y \div 2, n - 1)

WAnd(a, b) == Mk([i \in 1..WORD_BYTES |-> BitOp("and", a[i], b[i], 8)])
WOr(a, b)  == Mk([i \in 1..WORD_BYTES |-> BitOp("or", a[i], b[i], 8)])
WXor(a, b) == Mk([i \in 1..WORD_BYTES |-> BitOp("xor", a[i], b[i], 8)])
WNot(a)    == Mk([i \in 1..WORD_BYTES |-> 255 - a[i]])

(***************************************************************************)
(* Conversions                                                             *)
(***************************************************************************)
\* Stand-in for every usize at or above 2^24: larger than any code length,
\* calldata length or memory size of the model.
HUGE == 16777216

\* u256_to_usize: the low 64 bits of the word; everything above is dropped.
\* The low 24 bits are kept exactly, a value whose bits 24..63 are not all
\* zero is represented by HUGE.
u256_to_usize(v) ==
  IF \A i \in (WORD_BYTES - 7)..(WORD_BYTES - 3) : v[i] = 0
  THEN v[WORD_BYTES - 2] * 65536 + v[WORD_BYTES - 1] * 256 + v[WORD_BYTES]
  ELSE HUGE

\* h160_to_u256: the address in the low 20 bytes, high 12 bytes zero.
h160_to_u256(a) ==
  Mk([i \in 1..WORD_BYTES |->
     IF i > WORD_BYTES - ADDR_BYTES THEN a[i - (WORD_BYTES - ADDR_BYTES)] ELSE 0])

\* u256_to_h160: the low 20 bytes of the word.
u256_to_h160(v) == Mk([i \in 1..ADDR_BYTES |-> v[i + (WORD_BYTES - ADDR_BYTES)]])

AZero == Zeros(ADDR_BYTES)

\* H160::from_low_u64_be(n), n < 256
ALow(n) == Mk([i \in 1..ADDR_BYTES |-> IF i = ADDR_BYTES THEN n ELSE 0])

\* Option<H160>
NoAddr == [some |-> FALSE, v |-> AZero]
SomeAddr(a) == [some |-> TRUE, v |-> a]
\* Option<H160>::unwrap_or_default()
unwrap_or_default(oa) == IF oa.some THEN oa.v ELSE AZero

\* 0-based indexing and slicing of byte vectors
At(s, i) == s[i + 1]
Slice(s, from, to) == SubSeq(s, from + 1, to)

\* words(size), mem_cost(words)
words(size) == (size + 31) \div 32
mem_cost(w) == 3 * w + (w * w) \div 512

(***************************************************************************)
(* Keccak-256 (tiny_keccak) is not computed bit-exactly: it is a fixed     *)
(* deterministic function from byte strings to 32 bytes.                   *)
(***************************************************************************)
\* h folded over bs[lo..hi]; the range is split in halves, and h is
\* evaluated before descending, to keep the evaluation shallow
RECURSIVE KMix(_, _, _, _)
KMix(bs, lo, hi, h) ==
  IF h < 0 \/ lo > hi THEN h
  ELSE IF lo = hi THEN (h * 31 + bs[lo] + lo) % 65521
  ELSE LET mid == (lo + hi) \div 2
       IN KMix(bs, mid + 1, hi, KMix(bs, lo, mid, h))

Keccak256(bs) ==
  Mk([i \in 1..WORD_BYTES |-> (KMix(bs, 1, Len(bs), 7 * i + Len(bs)) + 13 * i) % 256])

\* rlp_bytes
rlp_bytes(b) ==
  IF Len(b) = 1 /\ b[1] < 128 THEN <<b[1]>>
  ELSE <<(128 + Len(b)) % 256>> \o b

\* big-endian bytes of n without leading zeros (the while loop of rlp_u64)
RECURSIVE MinimalBE(_)
MinimalBE(n) == IF n = 0 THEN <<>> ELSE MinimalBE(n \div 256) \o <<n % 256>>

\* rlp_u64
rlp_u64(n) == IF n = 0 THEN <<128>> ELSE rlp_bytes(MinimalBE(n))

\* create_address(from, nonce)
create_address(from, nonce) ==
  LET enc_from  == rlp_bytes(from)
      enc_nonce == rlp_u64(nonce)
      list_len  == Len(enc_from) + Len(enc_nonce)
      rlp       == <<(192 + list_len) % 256>> \o enc_from \o enc_nonce
      out       == Keccak256(rlp)
  IN Mk([i \in 1..ADDR_BYTES |-> out[i + 12]])

\* create2_address(from, salt, init)
create2_address(from, salt, init) ==
  LET ih_out == Keccak256(init)
      out    == Keccak256(<<255>> \o from \o salt \o ih_out)
  IN Mk([i \in 1..ADDR_BYTES |-> out[i + 12]])

\* precompile(addr, input): Some(input) for the identity precompile at 0x..04
precompile(addr, input) ==
  IF addr = ALow(4) THEN [some |-> TRUE, v |-> input]
  ELSE [some |-> FALSE, v |-> <<>>]

\* call_gas(available, requested, has_value) -> (forward, base); `requested`
\* is the U256 gas operand, read with as_u128().  Any operand at or above
\* 2^24 exceeds every cap of the model, so min() returns the cap.
call_gas(available, requested, has_value) ==
  LET base == 700 + (IF has_value THEN 9000 ELSE 0)
      avail_after_base == IF available > base THEN available - base ELSE 0
      cap == avail_after_base - (avail_after_base \div 64)
      small == \A i \in 1..(WORD_BYTES - 3) : requested[i] = 0
      req == requested[WORD_BYTES - 2] * 65536 + requested[WORD_BYTES - 1] * 256
             + requested[WORD_BYTES]
      forward == IF small THEN Min(req, cap) ELSE cap
  IN [forward |-> forward, base |-> base]

\* the loop body with PUSHn advancing by one byte only
ScanStepNoSkip(code, p, st) ==
  IF p < st.pc THEN st
  ELSE IF At(code, p) = JUMPDEST THEN [pc |-> p + 1, set |-> st.set \cup {p}]
  ELSE [pc |-> p + 1, set |-> st.set]

\* one iteration of the while loop of scan_jumpdests at offset p; offsets
\* below st.pc lie inside a PUSH immediate already skipped
ScanStep(code, p, st) ==
  IF p < st.pc THEN st
  ELSE LET op == At(code, p)
       IN IF op = JUMPDEST THEN [pc |-> p + 1, set |-> st.set \cup {p}]
          ELSE IF op >= PUSH1 /\ op <= PUSH32
               THEN [pc |-> p + 1 + (op - PUSH1 + 1), set |-> st.set]
          ELSE IF op = PUSH0 THEN [pc |-> p + 1, set |-> st.set]
          ELSE [pc |-> p + 1, set |-> st.set]

\* the loop over offsets lo..hi; the range is split in halves, and st is
\* evaluated before descending, to keep the evaluation shallow
RECURSIVE ScanFrom(_, _, _, _)
ScanFrom(code, lo, hi, st) ==
  IF st.pc < 0 \/ lo > hi THEN st
  ELSE IF lo = hi THEN ScanStep(code, lo, st)
  ELSE LET mid == (lo + hi) \div 2
       IN ScanFrom(code, mid + 1, hi, ScanFrom(code, lo, mid, st))

\* scan_jumpdests(code): offsets of JUMPDEST bytes outside PUSH immediates
scan_jumpdests(code) == ScanFrom(code, 0, Len(code) - 1, [pc |-> 0, set |-> {}]).set

(***************************************************************************)
(* Account, World, BlockEnv, EvmConfig, Evm                                *)
(***************************************************************************)
\* HashMap::new()
EmptyMap == [k \in {} |-> WZero]

\* HashMap::insert
MapInsert(m, k, v) == [x \in (DOMAIN m) \cup {k} |-> IF x = k THEN v ELSE m[x]]

\* Account::default()
DefaultAccount == [nonce |-> 0, balance |-> WZero, code |-> <<>>, storage |-> EmptyMap]

\* Option<World>: None
NoWorld == [some |-> FALSE, accounts |-> [a \in {} |-> DefaultAccount]]
SomeWorld(accts) == [some |-> TRUE, accounts |-> accts]

\* accounts.insert(a, Account::default()) in place of entry(a).or_default():
\* an account that is present is reset
EntryReset(accts, a) ==
  [x \in (DOMAIN accts) \cup {a} |-> IF x = a THEN DefaultAccount ELSE accts[x]]

\* accounts.entry(a).or_default(): the map with a present
Entry(accts, a) ==
  IF a \in DOMAIN accts THEN accts
  ELSE [x \in (DOMAIN accts) \cup {a} |-> IF x = a THEN DefaultAccount ELSE accts[x]]

\* accounts.get(&a)....unwrap_or_default()
GetAccount(accts, a) == IF a \in DOMAIN accts THEN accts[a] ELSE DefaultAccount

\* BlockEnv::default()
DefaultBlock ==
  [coinbase |-> AZero, timestamp |-> 0, number |-> 0,
   gas_limit |-> WZero, chain_id |-> WZero, basefee |-> WZero]

\* locals of a call/create handler that are live across child.run()
NoPending == [kind |-> "none", oo |-> 0, osz |-> 0, created |-> AZero]

\* Evm::new(code, cfg)
EvmNew(code, cfg) ==
  [pc |-> 0,
   gas |-> cfg.gas_limit,
   code |-> code,
   stack |-> <<>>,
   memory |-> <<>>,
   storage |-> EmptyMap,
   calldata |-> cfg.calldata,
   return_data |-> <<>>,
   last_return_data |-> <<>>,
   halted |-> "None",
   logs |-> <<>>,
   is_static |-> FALSE,
   refund |-> 0,
   address |-> cfg.address,
   caller |-> cfg.caller,
   origin |-> cfg.origin,
   callvalue |-> cfg.value,
   gas_price |-> cfg.gas_price,
   block |-> cfg.block,
   world |-> cfg.world,
   jumpdests |-> scan_jumpdests(code),
   err |-> "Ok",
   pending |-> NoPending]

(***************************************************************************)
(* U256 multiplication and division                                        *)
(***************************************************************************)
\* little-endian digit p (0 = least significant) of a big-endian sequence
Digit(a, p) == a[Len(a) - p]

\* sum over i = lo..hi of a_i * b_(p-i), the range split in halves
RECURSIVE ColSum(_, _, _, _, _)
ColSum(a, b, p, lo, hi) ==
  IF lo > hi THEN 0
  ELSE IF lo = hi THEN Digit(a, lo) * Digit(b, p - lo)
  ELSE LET mid == (lo + hi) \div 2
       IN ColSum(a, b, p, lo, mid) + ColSum(a, b, p, mid + 1, hi)

\* columns lo..hi of the schoolbook product appended to st.cols (least
\* significant first), st.carry the carry into column lo.  The range is
\* split in halves, and st is a value before descending.
MulState == [carry : Nat, cols : Seq(0..255)]

MulCols(a, b, from, to, init) ==
  LET F[lo \in 0..(WORD_BYTES - 1), hi \in 0..(WORD_BYTES - 1), st \in MulState] ==
        IF lo = hi
        THEN LET G[t \in Nat] ==
                   [carry |-> t \div 256, cols |-> Append(st.cols, t % 256)]
             IN G[ColSum(a, b, lo, 0, lo) + st.carry]
        ELSE F[((lo + hi) \div 2) + 1, hi, F[lo, (lo + hi) \div 2, st]]
  IN F[from, to, init]

\* a.overflowing_mul(b).0
WMul(a, b) ==
  LET C[cols \in Seq(0..255)] ==
        Mk([i \in 1..WORD_BYTES |-> cols[WORD_BYTES - i + 1]])
      H[x \in Seq(0..255), y \in Seq(0..255)] ==
        C[MulCols(x, y, 0, WORD_BYTES - 1, [carry |-> 0, cols |-> <<>>]).cols]
  IN H[a, b]

\* bit k (1 = most significant) of a word
WBit(a, k) == (a[((k - 1) \div 8) + 1] \div (2 ^ (7 - ((k - 1) % 8)))) % 2

\* 2 * r + bit on sequences of any length (the top carry is dropped)
ShiftIn(r, bit) ==
  Mk([i \in 1..Len(r) |->
     (2 * r[i] + (IF i = Len(r) THEN bit ELSE r[i + 1] \div 128)) % 256])

NLt(a, b) == \E i \in 1..Len(a) : a[i] < b[i] /\ \A j \in 1..(i - 1) : a[j] = b[j]

NSub(a, b) ==
  Mk([i \in 1..Len(a) |->
     (a[i] - b[i] - (IF BorrowIn(a, b, i) THEN 1 ELSE 0) + 256) % 256])

\* restoring division, one quotient bit per step k = lo..hi (bit 1 is the
\* most significant); st.rem and b carry one spare byte so that 2 * rem + bit
\* never overflows.  The range is split in halves, and st is evaluated
\* before descending, to keep the evaluation shallow.
DivStep(a, b, k, st) ==
  LET G[r2 \in Seq(0..255)] ==
        IF NLt(r2, b) THEN [rem |-> r2, quo |-> ShiftIn(st.quo, 0)]
        ELSE [rem |-> NSub(r2, b), quo |-> ShiftIn(st.quo, 1)]
  IN G[ShiftIn(st.rem, WBit(a, k))]

DivState == [rem : Seq(0..255), quo : Seq(0..255)]

DivLoop(a, b, from, to, init) ==
  LET F[lo \in 1..(8 * WORD_BYTES), hi \in 1..(8 * WORD_BYTES), st \in DivState] ==
        IF lo = hi THEN DivStep(a, b, lo, st)
        ELSE F[((lo + hi) \div 2) + 1, hi, F[lo, (lo + hi) \div 2, st]]
  IN F[from, to, init]

\* a / b on U256, b non-zero
WDiv(a, b) ==
  LET H[x \in Seq(0..255), y \in Seq(0..255)] ==
        DivLoop(x, <<0>> \o y, 1, 8 * WORD_BYTES,
                [rem |-> Zeros(WORD_BYTES + 1), quo |-> WZero]).quo
  IN H[a, b]

(***************************************************************************)
(* Evm helper methods                                                      *)
(***************************************************************************)
Fail(f, e) == [f EXCEPT !.err = e]

\* the `?` operator: continue with G only when the previous call returned Ok
Then(f, G(_)) == IF f.err = "Ok" THEN G(f) ELSE f

\* Evm::gas_dec
\* a gas_dec that charges nothing
GasDecFree(f, amount) ==
  LET g == f.gas - Min(amount, 0)
  IN IF g < 0 THEN [f EXCEPT !.gas = g, !.err = "OutOfGas"]
     ELSE [f EXCEPT !.gas = g]

gas_dec(f, amount) ==
  LET g == f.gas - Max(amount, 0)
  IN IF g < 0 THEN [f EXCEPT !.gas = g, !.err = "OutOfGas"]
     ELSE [f EXCEPT !.gas = g]

\* push without the STACK_LIMIT test
PushUnchecked(f, v) == [f EXCEPT !.stack = Append(@, v)]

\* Evm::push
push(f, v) ==
  IF Len(f.stack) >= STACK_LIMIT THEN Fail(f, "StackOverflow")
  ELSE [f EXCEPT !.stack = Append(@, v)]

\* k consecutive `self.pop()?`: each pop removes the top; the first pop on an
\* empty stack returns StackUnderflow, the items popped before it stay popped
PopN(f, k) ==
  IF Len(f.stack) < k THEN [f EXCEPT !.stack = <<>>, !.err = "StackUnderflow"]
  ELSE [f EXCEPT !.stack = SubSeq(@, 1, Len(@) - k)]

\* the i-th value popped from f's stack (1 = the top)
Arg(f, i) == f.stack[Len(f.stack) - i + 1]

\* stack.pop().unwrap_or_else(U256::zero) for the i-th pop
ArgOrZero(f, i) == IF Len(f.stack) >= i THEN Arg(f, i) ELSE WZero

\* Evm::binop(f): b = pop or 0, a = pop or 0, stack.push(f(a, b)) unchecked
binop(f, F(_, _)) ==
  LET b == ArgOrZero(f, 1)
      a == ArgOrZero(f, 2)
      rest == SubSeq(f.stack, 1, Max(Len(f.stack) - 2, 0))
  IN [f EXCEPT !.stack = Append(rest, F(a, b))]

\* Evm::unop(f)
unop(f, F(_)) ==
  LET a == ArgOrZero(f, 1)
      rest == SubSeq(f.stack, 1, Max(Len(f.stack) - 1, 0))
  IN [f EXCEPT !.stack = Append(rest, F(a))]

\* Evm::ensure_memory: resize to exactly `size` when shorter
ensure_memory(f, size) ==
  IF Len(f.memory) < size
  THEN [f EXCEPT !.memory = @ \o Zeros(size - Len(@))]
  ELSE f

\* Evm::charge_memory
charge_memory(f, size) ==
  LET before == words(Len(f.memory))
      after  == words(size)
  IN IF after > before THEN gas_dec(f, mem_cost(after) - mem_cost(before))
     ELSE f

\* sload that reads the frame-local map whatever the world holds
SloadFrameLocal(f, key) ==
  IF key \in DOMAIN f.storage THEN f.storage[key] ELSE WZero

\* Evm::sload
sload(f, key) ==
  IF f.world.some /\ f.address.some /\ f.address.v \in DOMAIN f.world.accounts
  THEN LET st == f.world.accounts[f.address.v].storage
       IN IF key \in DOMAIN st THEN st[key] ELSE WZero
  ELSE IF key \in DOMAIN f.storage THEN f.storage[key] ELSE WZero

\* sstore that writes the storage of the account at the zero address
SstoreAtZeroAddress(f, key, val) ==
  IF f.world.some /\ f.address.some
  THEN LET accts == Entry(f.world.accounts, AZero)
       IN [f EXCEPT !.world.accounts =
             [accts EXCEPT ![AZero].storage = MapInsert(@, key, val)]]
  ELSE [f EXCEPT !.storage = MapInsert(@, key, val)]

\* Evm::sstore
sstore(f, key, val) ==
  IF f.world.some /\ f.address.some
  THEN LET accts == Entry(f.world.accounts, f.address.v)
       IN [f EXCEPT !.world.accounts =
             [accts EXCEPT ![f.address.v].storage = MapInsert(@, key, val)]]
  ELSE [f EXCEPT !.storage = MapInsert(@, key, val)]

\* for i in 0..s { memory[m + i] = *src.get(c + i).unwrap_or(&0) }
MemCopy(mem, m, s, src, c) ==
  Mk([i \in 1..Len(mem) |->
     IF i - 1 >= m /\ i - 1 < m + s
     THEN (IF c + (i - 1 - m) < Len(src) THEN At(src, c + (i - 1 - m)) ELSE 0)
     ELSE mem[i]])

\* self.pc += 1
Advance(f) == [f EXCEPT !.pc = @ + 1]

\* self.gas_dec(cost)?; self.pc += 1;
Charge(f, cost) == Then(gas_dec(f, cost), Advance)

\* self.push(v)?; self.gas_dec(cost)?; self.pc += 1;
PushCharge(f, v, cost) == Then(push(f, v), LAMBDA g : Charge(g, cost))

(***************************************************************************)
(* Evm::step, one operator per match arm.  Each takes the frame before the *)
(* step (gas > 0, pc < code.len()) and returns the frame after it, with    *)
(* err set when the arm returned Err.                                      *)
(***************************************************************************)
Op(f) == At(f.code, f.pc)

\* STOP
OpSTOP(f) ==
  Then(gas_dec(f, 0), LAMBDA g : [g EXCEPT !.halted = "Stop", !.pc = Len(g.code)])

\* ADD, MUL, SUB, DIV: binop first, gas afterwards
WDivOrZero(a, b) == IF WIsZero(b) THEN WZero ELSE WDiv(a, b)
\* ADD charged like MUL
AddChargedFive(f) == Charge(binop(f, WAdd), 5)
OpADD(f) == Charge(binop(f, WAdd), 3)
OpMUL(f) == Charge(binop(f, WMul), 5)
\* SUB with the operands exchanged: top minus second
SubTopMinusSecond(f) == Charge(binop(f, LAMBDA a, b : WSub(b, a)), 3)
OpSUB(f) == Charge(binop(f, WSub), 3)
OpDIV(f) == Charge(binop(f, WDivOrZero), 5)

\* LT, GT, EQ, ISZERO, AND, OR, XOR, NOT
WLtW(a, b) == WBool(WLt(a, b))
WGtW(a, b) == WBool(WGt(a, b))
WEqW(a, b) == WBool(a = b)
WIsZeroW(a) == WBool(WIsZero(a))
OpLT(f) == Charge(binop(f, WLtW), 3)
OpGT(f) == Charge(binop(f, WGtW), 3)
OpEQ(f) == Charge(binop(f, WEqW), 3)
OpISZERO(f) == Charge(unop(f, WIsZeroW), 3)
OpAND(f) == Charge(binop(f, WAnd), 3)
OpOR(f) == Charge(binop(f, WOr), 3)
OpXOR(f) == Charge(binop(f, WXor), 3)
OpNOT(f) == Charge(unop(f, WNot), 3)

\* SHA3
OpSHA3(f) ==
  Then(PopN(f, 2), LAMBDA g :
    LET offset_usize == u256_to_usize(Arg(f, 1))
        size_usize   == u256_to_usize(Arg(f, 2))
        m     == ensure_memory(g, offset_usize + size_usize)
        slice == Slice(m.memory, offset_usize, offset_usize + size_usize)
    IN PushCharge(m, Keccak256(slice), 30 + (size_usize + 31) \div 32))

\* world.accounts.get(&h) on an Option<World>
WorldAccount(f, h) ==
  IF f.world.some THEN GetAccount(f.world.accounts, h) ELSE DefaultAccount

\* ADDRESS, ORIGIN, CALLER, CALLVALUE, GASPRICE
OpADDRESS(f) == PushCharge(f, h160_to_u256(unwrap_or_default(f.address)), 2)
OpORIGIN(f) == PushCharge(f, h160_to_u256(unwrap_or_default(f.origin)), 2)
OpCALLER(f) == PushCharge(f, h160_to_u256(unwrap_or_default(f.caller)), 2)
OpCALLVALUE(f) == PushCharge(f, f.callvalue, 2)
OpGASPRICE(f) == PushCharge(f, f.gas_price, 2)

\* BALANCE
OpBALANCE(f) ==
  Then(PopN(f, 1), LAMBDA g :
    PushCharge(g, WorldAccount(f, u256_to_h160(Arg(f, 1))).balance, 100))

\* EXTCODESIZE
OpEXTCODESIZE(f) ==
  Then(PopN(f, 1), LAMBDA g :
    PushCharge(g, WFromInt(Len(WorldAccount(f, u256_to_h160(Arg(f, 1))).code)), 100))

\* EXTCODEHASH
OpEXTCODEHASH(f) ==
  Then(PopN(f, 1), LAMBDA g :
    PushCharge(g, Keccak256(WorldAccount(f, u256_to_h160(Arg(f, 1))).code), 400))

\* the shared body of EXTCODECOPY, RETURNDATACOPY, CALLDATACOPY, CODECOPY
\* after the pops: charge, grow, copy, constant cost
CopyToMemory(g, m, c, s, src, base) ==
  Then(charge_memory(g, m + s), LAMBDA h :
    LET e == ensure_memory(h, m + s)
    IN Charge([e EXCEPT !.memory = MemCopy(@, m, s, src, c)],
              base + (s + 31) \div 32))

\* EXTCODECOPY
OpEXTCODECOPY(f) ==
  Then(PopN(f, 4), LAMBDA g :
    CopyToMemory(g, u256_to_usize(Arg(f, 2)), u256_to_usize(Arg(f, 3)),
                 u256_to_usize(Arg(f, 4)),
                 WorldAccount(f, u256_to_h160(Arg(f, 1))).code, 100))

\* RETURNDATASIZE, RETURNDATACOPY
OpRETURNDATASIZE(f) == PushCharge(f, WFromInt(Len(f.last_return_data)), 2)
OpRETURNDATACOPY(f) ==
  Then(PopN(f, 3), LAMBDA g :
    CopyToMemory(g, u256_to_usize(Arg(f, 1)), u256_to_usize(Arg(f, 2)),
                 u256_to_usize(Arg(f, 3)), f.last_return_data, 3))

\* Block env
OpBLOCKHASH(f) == PushCharge(f, WZero, 20)
OpCOINBASE(f) == PushCharge(f, h160_to_u256(f.block.coinbase), 2)
OpTIMESTAMP(f) == PushCharge(f, WFromInt(f.block.timestamp), 2)
OpNUMBER(f) == PushCharge(f, WFromInt(f.block.number), 2)
OpDIFFICULTY(f) == PushCharge(f, WZero, 2)
OpGASLIMIT(f) == PushCharge(f, f.block.gas_limit, 2)
OpCHAINID(f) == PushCharge(f, f.block.chain_id, 2)
OpBASEFEE(f) == PushCharge(f, f.block.basefee, 2)

\* SELFBALANCE
OpSELFBALANCE(f) ==
  LET bal == IF f.address.some /\ f.world.some
                /\ f.address.v \in DOMAIN f.world.accounts
             THEN f.world.accounts[f.address.v].balance ELSE WZero
  IN PushCharge(f, bal, 5)

\* POP
OpPOP(f) == Then(PopN(f, 1), LAMBDA g : Charge(g, 2))

\* MLOAD
OpMLOAD(f) ==
  Then(PopN(f, 1), LAMBDA g :
    LET o == u256_to_usize(Arg(f, 1))
        m == ensure_memory(g, o + 32)
    IN PushCharge(m, WFromBE(Slice(m.memory, o, o + 32)), 3))

\* MSTORE
OpMSTORE(f) ==
  Then(PopN(f, 2), LAMBDA g :
    LET o == u256_to_usize(Arg(f, 1))
        m == ensure_memory(g, o + 32)
    IN Charge([m EXCEPT !.memory = MemCopy(@, o, 32, Arg(f, 2), 0)], 3))

\* MSTORE8
OpMSTORE8(f) ==
  Then(PopN(f, 2), LAMBDA g :
    LET o == u256_to_usize(Arg(f, 1))
        m == ensure_memory(g, o + 1)
    IN Charge([m EXCEPT !.memory = MemCopy(@, o, 1, <<Arg(f, 2)[WORD_BYTES]>>, 0)], 3))

\* SLOAD
OpSLOAD(f) == Then(PopN(f, 1), LAMBDA g : PushCharge(g, sload(g, Arg(f, 1)), 100))

\* SSTORE that never touches the refund counter
SstoreNoRefund(f) ==
  IF f.is_static THEN Fail(f, "StaticViolation")
  ELSE Then(PopN(f, 2), LAMBDA g :
    LET key == Arg(f, 1)
        val == Arg(f, 2)
        current == sload(g, key)
        cost == IF WIsZero(current) /\ ~WIsZero(val) THEN 20000
                ELSE IF ~WIsZero(current) /\ WIsZero(val) THEN 5000 ELSE 2900
    IN Then(gas_dec(g, cost), LAMBDA h : Advance(sstore(h, key, val))))

\* SSTORE
OpSSTORE(f) ==
  IF f.is_static THEN Fail(f, "StaticViolation")
  ELSE Then(PopN(f, 2), LAMBDA g :
    LET key == Arg(f, 1)
        val == Arg(f, 2)
        current == sload(g, key)
        clears == ~WIsZero(current) /\ WIsZero(val)
        cost == IF WIsZero(current) /\ ~WIsZero(val) THEN 20000
                ELSE IF clears THEN 5000 ELSE 2900
    IN Then(gas_dec(g, cost), LAMBDA h :
         Advance(sstore([h EXCEPT !.refund = IF clears THEN @ + 15000 ELSE @],
                        key, val))))

\* JUMP without the membership test on the destination
JumpUnchecked(f) ==
  Then(PopN(f, 1), LAMBDA g :
    Then(gas_dec(g, 8), LAMBDA h : [h EXCEPT !.pc = u256_to_usize(Arg(f, 1))]))

\* JUMP
OpJUMP(f) ==
  Then(PopN(f, 1), LAMBDA g :
    LET d == u256_to_usize(Arg(f, 1))
    IN IF d \notin g.jumpdests THEN Fail(g, "InvalidJump")
       ELSE Then(gas_dec(g, 8), LAMBDA h : [h EXCEPT !.pc = d]))

\* JUMPI: pc is assigned before the gas is charged
OpJUMPI(f) ==
  Then(PopN(f, 2), LAMBDA g :
    IF ~WIsZero(Arg(f, 2))
    THEN LET d == u256_to_usize(Arg(f, 1))
         IN IF d \notin g.jumpdests THEN Fail(g, "InvalidJump")
            ELSE gas_dec([g EXCEPT !.pc = d], 10)
    ELSE gas_dec(Advance(g), 10))

\* JUMPDEST
OpJUMPDEST(f) == Charge(f, 1)

\* PC, MSIZE, GAS
OpPC(f) == PushCharge(f, WFromInt(f.pc), 2)
OpMSIZE(f) == PushCharge(f, WFromInt(Len(f.memory)), 2)
OpGAS(f) == PushCharge(f, WFromInt(IF f.gas > 0 THEN f.gas ELSE 0), 2)

\* CALLDATALOAD: the available bytes are copied to the END of the buffer
OpCALLDATALOAD(f) ==
  Then(PopN(f, 1), LAMBDA g :
    LET o == u256_to_usize(Arg(f, 1))
        end == o + 32
        slice == IF o < Len(f.calldata)
                 THEN Slice(f.calldata, o, Min(Len(f.calldata), end)) ELSE <<>>
    IN PushCharge(g, WFromBE(slice), 3))

\* CALLDATASIZE, CALLDATACOPY, CODESIZE, CODECOPY
OpCALLDATASIZE(f) == PushCharge(f, WFromInt(Len(f.calldata)), 2)
OpCALLDATACOPY(f) ==
  Then(PopN(f, 3), LAMBDA g :
    CopyToMemory(g, u256_to_usize(Arg(f, 1)), u256_to_usize(Arg(f, 2)),
                 u256_to_usize(Arg(f, 3)), f.calldata, 3))
OpCODESIZE(f) == PushCharge(f, WFromInt(Len(f.code)), 2)
OpCODECOPY(f) ==
  Then(PopN(f, 3), LAMBDA g :
    CopyToMemory(g, u256_to_usize(Arg(f, 1)), u256_to_usize(Arg(f, 2)),
                 u256_to_usize(Arg(f, 3)), f.code, 3))

\* PUSH0
OpPUSH0(f) == PushCharge(f, WZero, 2)

\* PUSH1..PUSH32: the immediate is read only when it lies wholly inside the
\* code, otherwise the slice is empty; pc becomes start + n in both cases
OpPUSHn(f) ==
  LET n == Op(f) - PUSH1 + 1
      start == f.pc + 1
      end == start + n
      slice == IF end <= Len(f.code) THEN Slice(f.code, start, end) ELSE <<>>
  IN Then(push(f, WFromBE(slice)), LAMBDA g :
       Then(gas_dec(g, 3), LAMBDA h : [h EXCEPT !.pc = end]))

\* DUP1..DUP16
OpDUPn(f) ==
  LET n == Op(f) - DUP1 + 1
  IN IF Len(f.stack) < n THEN Fail(f, "StackUnderflow")
     ELSE PushCharge(f, f.stack[Len(f.stack) - n + 1], 3)

\* SWAP1..SWAP16
OpSWAPn(f) ==
  LET n == Op(f) - SWAP1 + 1
      top == Len(f.stack)
      other == top - n
  IN IF Len(f.stack) < n + 1 THEN Fail(f, "StackUnderflow")
     ELSE Charge([f EXCEPT !.stack = [@ EXCEPT ![top] = f.stack[other],
                                                ![other] = f.stack[top]]], 3)

\* RETURN / REVERT
HaltWith(f, kind) ==
  Then(PopN(f, 2), LAMBDA g :
    LET o == u256_to_usize(Arg(f, 1))
        s == u256_to_usize(Arg(f, 2))
        m == ensure_memory(g, o + s)
        h == [m EXCEPT !.return_data = Slice(m.memory, o, o + s), !.halted = kind]
    IN Then(gas_dec(h, 0), LAMBDA k : [k EXCEPT !.pc = Len(k.code)]))
OpRETURN(f) == HaltWith(f, "Return")
OpREVERT(f) == HaltWith(f, "Revert")

\* LOGn that records the topics in the reverse of the order popped
LogTopicsReversed(f) ==
  IF f.is_static THEN Fail(f, "StaticViolation")
  ELSE LET n == Op(f) - LOG0
       IN Then(PopN(f, 2 + n), LAMBDA g :
            LET o == u256_to_usize(Arg(f, 1))
                s == u256_to_usize(Arg(f, 2))
                topics == Mk([j \in 1..n |-> Arg(f, 2 + (n + 1 - j))])
                m == ensure_memory(g, o + s)
                data == Slice(m.memory, o, o + s)
            IN Charge([m EXCEPT !.logs = Append(@, [topics |-> topics, data |-> data])],
                      8 + (s + 31) \div 32))

\* LOG0..LOG4: the entry is appended before the gas is charged
OpLOGn(f) ==
  IF f.is_static THEN Fail(f, "StaticViolation")
  ELSE LET n == Op(f) - LOG0
       IN Then(PopN(f, 2 + n), LAMBDA g :
            LET o == u256_to_usize(Arg(f, 1))
                s == u256_to_usize(Arg(f, 2))
                topics == Mk([j \in 1..n |-> Arg(f, 2 + j)])
                m == ensure_memory(g, o + s)
                data == Slice(m.memory, o, o + s)
            IN Charge([m EXCEPT !.logs = Append(@, [topics |-> topics, data |-> data])],
                      8 + (s + 31) \div 32))

\* any other byte
OpInvalid(f) == Fail(f, "InvalidOpcode")

(***************************************************************************)
(* CALL / STATICCALL / CALLCODE / DELEGATECALL / CREATE / CREATE2.         *)
(* The part of the arm up to child.run() returns [parent, child]: child is *)
(* <<>> when the arm completes without running a child frame, and          *)
(* <<the new Evm>> when it blocks in child.run().  The part after          *)
(* child.run() is the matching After... operator.                          *)
(***************************************************************************)
Done(f) == [parent |-> f, child |-> <<>>]
\* a child that inherits the static flag of the frame that made it
SpawnInheritStatic(f, kind, oo, osz, created, c) ==
  [parent |-> [f EXCEPT !.pending =
                 [kind |-> kind, oo |-> oo, osz |-> osz, created |-> created]],
   child |-> <<[c EXCEPT !.is_static = @ \/ f.is_static]>>]
Spawn(f, kind, oo, osz, created, c) ==
  [parent |-> [f EXCEPT !.pending =
                 [kind |-> kind, oo |-> oo, osz |-> osz, created |-> created]],
   child |-> <<c>>]

\* child.run() has returned: Err(_) or Ok(())
RunReturned(c) == c.err # "Ok" \/ c.halted # "None" \/ c.pc >= Len(c.code)
RunErr(c) == c.err # "Ok"

\* a "write return" tail that copies the return data without zero padding
CallTailNoPad(f, success, ret, oo, osz) ==
  PushCharge([f EXCEPT !.memory =
                         MemCopy(@, oo, IF osz < Len(ret) THEN osz ELSE Len(ret), ret, 0),
                       !.last_return_data = ret],
             WBool(success), 40)

\* "write return" tail shared by the four call arms
CallTail(f, success, ret, oo, osz) ==
  PushCharge([f EXCEPT !.memory = MemCopy(@, oo, osz, ret, 0),
                       !.last_return_data = ret],
             WBool(success), 40)

\* pops and the two charge_memory/ensure_memory pairs shared by the call arms;
\* io, isz, oo, osz are the usize operands
CallMemory(g, io, isz, oo, osz, K(_)) ==
  Then(charge_memory(g, io + isz), LAMBDA h1 :
    Then(charge_memory(ensure_memory(h1, io + isz), oo + osz), LAMBDA h2 :
      K(ensure_memory(h2, oo + osz))))

\* a child configuration that takes the caller for the new frame's address
ChildConfigAtCaller(f, gas_limit, input, address, caller, value, accts) ==
  [gas_limit |-> gas_limit, calldata |-> input, address |-> caller,
   caller |-> caller, origin |-> f.origin, value |-> value,
   gas_price |-> f.gas_price, block |-> f.block, world |-> SomeWorld(accts)]

ChildConfig(f, gas_limit, input, address, caller, value, accts) ==
  [gas_limit |-> gas_limit, calldata |-> input, address |-> address,
   caller |-> caller, origin |-> f.origin, value |-> value,
   gas_price |-> f.gas_price, block |-> f.block, world |-> SomeWorld(accts)]

\* CALL, up to child.run()
OpCALL(f) ==
  LET p == PopN(f, 7)
  IN IF p.err # "Ok" THEN Done(p)
     ELSE
     LET gasw == Arg(f, 1)
         to_h == u256_to_h160(Arg(f, 2))
         value == Arg(f, 3)
         io == u256_to_usize(Arg(f, 4))
         isz == u256_to_usize(Arg(f, 5))
         oo == u256_to_usize(Arg(f, 6))
         osz == u256_to_usize(Arg(f, 7))
         m == CallMemory(p, io, isz, oo, osz, LAMBDA h : h)
     IN IF m.err # "Ok" THEN Done(m)
        ELSE
        LET input == Slice(m.memory, io, io + isz)
            from_addr == unwrap_or_default(m.address)
            cg == call_gas(m.gas, gasw, ~WIsZero(value))
            g == gas_dec(m, cg.base)
        IN IF g.err # "Ok" THEN Done(g)
           ELSE IF ~g.world.some THEN Done(CallTail(g, TRUE, <<>>, oo, osz))
           ELSE
           LET w1 == Entry(g.world.accounts, from_addr)
               pre == precompile(to_h, input)
           IN IF ~WGe(w1[from_addr].balance, value)
              THEN Done(CallTail(g, FALSE, <<>>, oo, osz))
              ELSE IF pre.some THEN Done(CallTail(g, TRUE, pre.v, oo, osz))
              ELSE
              LET w2 == [w1 EXCEPT ![from_addr].balance = WSub(@, value)]
                  w3 == Entry(w2, to_h)
                  w_clone == [w3 EXCEPT ![to_h].balance = WAdd(@, value)]
                  child == EvmNew(w_clone[to_h].code,
                             ChildConfig(g, cg.forward + (IF ~WIsZero(value) THEN 2300 ELSE 0),
                                         input, SomeAddr(to_h), SomeAddr(from_addr),
                                         value, w_clone))
              IN Spawn(g, "CALL", oo, osz, AZero, child)

\* the merge without the `if success` test, as in the STATICCALL arm
MergeWheneverOk(p, c) ==
  IF ~RunErr(c) THEN [p EXCEPT !.world = c.world] ELSE p

\* no merge at all
MergeNever(p, c) == p

\* CALL, CALLCODE, DELEGATECALL after child.run(): the child's world is taken
\* only when run() returned Ok and the child did not halt with Revert
MergeOnSuccess(p, c) ==
  LET success == ~RunErr(c) /\ c.halted # "Revert"
  IN IF success THEN [p EXCEPT !.world = c.world] ELSE p

AfterCALL(p, c) ==
  LET success == ~RunErr(c) /\ c.halted # "Revert"
      ret == IF RunErr(c) THEN <<>> ELSE c.return_data
  IN CallTail([MergeOnSuccess(p, c) EXCEPT !.pending = NoPending],
              success, ret, p.pending.oo, p.pending.osz)

\* STATICCALL, up to child.run(): no call_gas, no base cost, the child gets
\* the parent's whole remaining gas
OpSTATICCALL(f) ==
  LET p == PopN(f, 6)
  IN IF p.err # "Ok" THEN Done(p)
     ELSE
     LET to_h == u256_to_h160(Arg(f, 2))
         io == u256_to_usize(Arg(f, 3))
         isz == u256_to_usize(Arg(f, 4))
         oo == u256_to_usize(Arg(f, 5))
         osz == u256_to_usize(Arg(f, 6))
         g == CallMemory(p, io, isz, oo, osz, LAMBDA h : h)
     IN IF g.err # "Ok" THEN Done(g)
        ELSE
        LET input == Slice(g.memory, io, io + isz)
            from_addr == unwrap_or_default(g.address)
            pre == precompile(to_h, input)
        IN IF ~g.world.some THEN Done(CallTail(g, TRUE, <<>>, oo, osz))
           ELSE IF pre.some THEN Done(CallTail(g, TRUE, pre.v, oo, osz))
           ELSE
           LET child == EvmNew(GetAccount(g.world.accounts, to_h).code,
                          ChildConfig(g, g.gas, input, SomeAddr(to_h),
                                      SomeAddr(from_addr), WZero, g.world.accounts))
           IN Spawn(g, "STATICCALL", oo, osz, AZero, [child EXCEPT !.is_static = TRUE])

\* STATICCALL after child.run(): the child's world is taken whenever run()
\* returned Ok, whether or not the child halted with Revert
MergeStatic(p, c) ==
  IF ~RunErr(c) THEN [p EXCEPT !.world = c.world] ELSE p

AfterSTATICCALL(p, c) ==
  LET success == ~RunErr(c) /\ c.halted # "Revert"
      ret == IF RunErr(c) THEN <<>> ELSE c.return_data
  IN CallTail([MergeStatic(p, c) EXCEPT !.pending = NoPending],
              success, ret, p.pending.oo, p.pending.osz)

\* CALLCODE, up to child.run(): no balance is moved; the child runs the
\* target's code at the current address
OpCALLCODE(f) ==
  LET p == PopN(f, 7)
  IN IF p.err # "Ok" THEN Done(p)
     ELSE
     LET gasw == Arg(f, 1)
         to_h == u256_to_h160(Arg(f, 2))
         value == Arg(f, 3)
         io == u256_to_usize(Arg(f, 4))
         isz == u256_to_usize(Arg(f, 5))
         oo == u256_to_usize(Arg(f, 6))
         osz == u256_to_usize(Arg(f, 7))
         m == CallMemory(p, io, isz, oo, osz, LAMBDA h : h)
     IN IF m.err # "Ok" THEN Done(m)
        ELSE
        LET input == Slice(m.memory, io, io + isz)
            self_addr == unwrap_or_default(m.address)
            cg == call_gas(m.gas, gasw, ~WIsZero(value))
            g == gas_dec(m, cg.base)
        IN IF g.err # "Ok" THEN Done(g)
           ELSE IF ~g.world.some THEN Done(CallTail(g, TRUE, <<>>, oo, osz))
           ELSE
           LET w_clone == Entry(g.world.accounts, self_addr)
               pre == precompile(to_h, input)
           IN IF ~WGe(w_clone[self_addr].balance, value)
              THEN Done(CallTail(g, FALSE, <<>>, oo, osz))
              ELSE IF pre.some THEN Done(CallTail(g, TRUE, pre.v, oo, osz))
              ELSE
              LET child == EvmNew(GetAccount(w_clone, to_h).code,
                             ChildConfig(g, cg.forward + (IF ~WIsZero(value) THEN 2300 ELSE 0),
                                         input, SomeAddr(self_addr), SomeAddr(self_addr),
                                         value, w_clone))
              IN Spawn(g, "CALLCODE", oo, osz, AZero, child)

AfterCALLCODE(p, c) == AfterCALL(p, c)

\* DELEGATECALL, up to child.run(): address, caller and call value inherited
OpDELEGATECALL(f) ==
  LET p == PopN(f, 6)
  IN IF p.err # "Ok" THEN Done(p)
     ELSE
     LET gasw == Arg(f, 1)
         to_h == u256_to_h160(Arg(f, 2))
         io == u256_to_usize(Arg(f, 3))
         isz == u256_to_usize(Arg(f, 4))
         oo == u256_to_usize(Arg(f, 5))
         osz == u256_to_usize(Arg(f, 6))
         m == CallMemory(p, io, isz, oo, osz, LAMBDA h : h)
     IN IF m.err # "Ok" THEN Done(m)
        ELSE
        LET input == Slice(m.memory, io, io + isz)
            cg == call_gas(m.gas, gasw, FALSE)
            g == gas_dec(m, cg.base)
            pre == precompile(to_h, input)
        IN IF g.err # "Ok" THEN Done(g)
           ELSE IF ~g.world.some THEN Done(CallTail(g, TRUE, <<>>, oo, osz))
           ELSE IF pre.some THEN Done(CallTail(g, TRUE, pre.v, oo, osz))
           ELSE
           LET child == EvmNew(GetAccount(g.world.accounts, to_h).code,
                          ChildConfig(g, cg.forward, input, g.address, g.caller,
                                      g.callvalue, g.world.accounts))
           IN Spawn(g, "DELEGATECALL", oo, osz, AZero, child)

AfterDELEGATECALL(p, c) == AfterCALL(p, c)

\* tail of CREATE / CREATE2
CreateTail(f, success, created) ==
  PushCharge(f, IF success THEN h160_to_u256(created) ELSE WZero, 32000)

\* CREATE, up to child.run()
OpCREATE(f) ==
  IF f.is_static THEN Done(Fail(f, "StaticViolation"))
  ELSE
  LET p == PopN(f, 3)
  IN IF p.err # "Ok" THEN Done(p)
     ELSE
     LET value == Arg(f, 1)
         o == u256_to_usize(Arg(f, 2))
         s == u256_to_usize(Arg(f, 3))
         c1 == charge_memory(p, o + s)
     IN IF c1.err # "Ok" THEN Done(c1)
        ELSE
        LET g == ensure_memory(c1, o + s)
            init == Slice(g.memory, o, o + s)
            from == unwrap_or_default(g.address)
        IN IF ~g.world.some THEN Done(CreateTail(g, FALSE, AZero))
           ELSE
           LET w1 == Entry(g.world.accounts, from)
               nonce == w1[from].nonce
               created == create_address(from, nonce)
           IN IF ~WGe(w1[from].balance, value)
              THEN Done(CreateTail(g, FALSE, AZero))
              ELSE
              LET w2 == [w1 EXCEPT ![from].nonce = @ + 1,
                                   ![from].balance = WSub(@, value)]
                  w3 == Entry(w2, created)
                  w_clone == [w3 EXCEPT ![created].balance = WAdd(@, value)]
                  child == EvmNew(init,
                             ChildConfig(g, g.gas, <<>>, SomeAddr(created),
                                         SomeAddr(from), value, w_clone))
              IN Spawn(g, "CREATE", 0, 0, created, child)

\* the merge of a successful create that leaves the new account's code empty
MergeCreatedNoCode(p, c) ==
  LET success == ~RunErr(c) /\ c.halted # "Revert"
  IN IF success
     THEN [p EXCEPT !.world.accounts = Entry(c.world.accounts, p.pending.created)]
     ELSE p

\* CREATE / CREATE2 after child.run(): on success the child's world, with the
\* child's return data installed as the code of `created`, replaces w
MergeCreated(p, c) ==
  LET success == ~RunErr(c) /\ c.halted # "Revert"
      cw == Entry(c.world.accounts, p.pending.created)
  IN IF success
     THEN [p EXCEPT !.world.accounts =
             [cw EXCEPT ![p.pending.created].code = c.return_data]]
     ELSE p

AfterCREATE(p, c) ==
  LET success == ~RunErr(c) /\ c.halted # "Revert"
  IN CreateTail([MergeCreated(p, c) EXCEPT !.pending = NoPending],
                success, p.pending.created)

\* CREATE2, up to child.run(): the nonce is not touched
OpCREATE2(f) ==
  IF f.is_static THEN Done(Fail(f, "StaticViolation"))
  ELSE
  LET p == PopN(f, 4)
  IN IF p.err # "Ok" THEN Done(p)
     ELSE
     LET value == Arg(f, 1)
         o == u256_to_usize(Arg(f, 2))
         s == u256_to_usize(Arg(f, 3))
         salt == Arg(f, 4)
         c1 == charge_memory(p, o + s)
     IN IF c1.err # "Ok" THEN Done(c1)
        ELSE
        LET g == ensure_memory(c1, o + s)
            init == Slice(g.memory, o, o + s)
            from == unwrap_or_default(g.address)
        IN IF ~g.world.some THEN Done(CreateTail(g, FALSE, AZero))
           ELSE
           LET w1 == Entry(g.world.accounts, from)
               created == create2_address(from, salt, init)
           IN IF ~WGe(w1[from].balance, value)
              THEN Done(CreateTail(g, FALSE, AZero))
              ELSE
              LET w2 == [w1 EXCEPT ![from].balance = WSub(@, value)]
                  w3 == Entry(w2, created)
                  w_clone == [w3 EXCEPT ![created].balance = WAdd(@, value)]
                  child == EvmNew(init,
                             ChildConfig(g, g.gas, <<>>, SomeAddr(created),
                                         SomeAddr(from), value, w_clone))
              IN Spawn(g, "CREATE2", 0, 0, created, child)

AfterCREATE2(p, c) == AfterCREATE(p, c)

(***************************************************************************)
(* The machine: Evm::run of the executing frame, one step per transition   *)
(***************************************************************************)
Depth == Len(frames)
Top == frames[Depth]

\* the loop condition of Evm::run for the executing frame
Running(f) == f.err = "Ok" /\ f.halted = "None" /\ f.pc < Len(f.code)

\* Evm::step entry: `if self.gas <= 0 { return Err(OutOfGas) }`, then the arm
StepWith(f, H(_)) == IF f.gas <= 0 THEN Fail(f, "OutOfGas") ELSE H(f)

\* the executing frame is about to step through one of the arms `ops`
CanExec(ops) == Running(Top) /\ Op(Top) \in ops

\* the frame stack with the executing frame replaced by f
WithTop(f) == [frames EXCEPT ![Depth] = f]

\* the frame stack after a call/create arm returned r = [parent, child]
WithCall(r) == SubSeq(frames, 1, Depth - 1) \o <<r.parent>> \o r.child

\* Evm::step into a call/create arm
StepCallWith(f, H(_)) == IF f.gas <= 0 THEN Done(Fail(f, "OutOfGas")) ELSE H(f)

\* dispatch inside the groups of arms
ArithArm(f) ==
  CASE Op(f) = ADD -> OpADD(f) [] Op(f) = MUL -> OpMUL(f)
    [] Op(f) = SUB -> OpSUB(f) [] Op(f) = DIV -> OpDIV(f)

LogicArm(f) ==
  CASE Op(f) = LT -> OpLT(f) [] Op(f) = GT -> OpGT(f) [] Op(f) = EQ -> OpEQ(f)
    [] Op(f) = ISZERO -> OpISZERO(f) [] Op(f) = AND -> OpAND(f)
    [] Op(f) = OR -> OpOR(f) [] Op(f) = XOR -> OpXOR(f) [] Op(f) = NOT -> OpNOT(f)

EnvArm(f) ==
  CASE Op(f) = ADDRESS -> OpADDRESS(f) [] Op(f) = BALANCE -> OpBALANCE(f)
    [] Op(f) = ORIGIN -> OpORIGIN(f) [] Op(f) = CALLER -> OpCALLER(f)
    [] Op(f) = CALLVALUE -> OpCALLVALUE(f) [] Op(f) = GASPRICE -> OpGASPRICE(f)
    [] Op(f) = EXTCODESIZE -> OpEXTCODESIZE(f)
    [] Op(f) = EXTCODECOPY -> OpEXTCODECOPY(f)
    [] Op(f) = RETURNDATASIZE -> OpRETURNDATASIZE(f)
    [] Op(f) = RETURNDATACOPY -> OpRETURNDATACOPY(f)
    [] Op(f) = EXTCODEHASH -> OpEXTCODEHASH(f)

BlockArm(f) ==
  CASE Op(f) = BLOCKHASH -> OpBLOCKHASH(f) [] Op(f) = COINBASE -> OpCOINBASE(f)
    [] Op(f) = TIMESTAMP -> OpTIMESTAMP(f) [] Op(f) = NUMBER -> OpNUMBER(f)
    [] Op(f) = DIFFICULTY_PRAND -> OpDIFFICULTY(f)
    [] Op(f) = GASLIMIT_OP -> OpGASLIMIT(f) [] Op(f) = CHAINID -> OpCHAINID(f)
    [] Op(f) = SELFBALANCE -> OpSELFBALANCE(f) [] Op(f) = BASEFEE -> OpBASEFEE(f)

IntrospectArm(f) ==
  CASE Op(f) = PC -> OpPC(f) [] Op(f) = MSIZE -> OpMSIZE(f) [] Op(f) = GAS -> OpGAS(f)

CalldataArm(f) ==
  CASE Op(f) = CALLDATALOAD -> OpCALLDATALOAD(f)
    [] Op(f) = CALLDATASIZE -> OpCALLDATASIZE(f)
    [] Op(f) = CALLDATACOPY -> OpCALLDATACOPY(f)
    [] Op(f) = CODESIZE -> OpCODESIZE(f) [] Op(f) = CODECOPY -> OpCODECOPY(f)

ArithOps == {ADD, MUL, SUB, DIV}
LogicOps == {LT, GT, EQ, ISZERO, AND, OR, XOR, NOT}
EnvOps == {ADDRESS, BALANCE, ORIGIN, CALLER, CALLVALUE, GASPRICE, EXTCODESIZE,
           EXTCODECOPY, RETURNDATASIZE, RETURNDATACOPY, EXTCODEHASH}
BlockOps == {BLOCKHASH, COINBASE, TIMESTAMP, NUMBER, DIFFICULTY_PRAND,
             GASLIMIT_OP, CHAINID, SELFBALANCE, BASEFEE}
IntrospectOps == {PC, MSIZE, GAS}
CalldataOps == {CALLDATALOAD, CALLDATASIZE, CALLDATACOPY, CODESIZE, CODECOPY}
CallOps == {CALL, STATICCALL, CALLCODE, DELEGATECALL, CREATE, CREATE2}
Implemented ==
  {STOP, SHA3, POP, MLOAD, MSTORE, MSTORE8, SLOAD, SSTORE, JUMP, JUMPI,
   JUMPDEST, PUSH0, RETURN, REVERT}
    \cup ArithOps \cup LogicOps \cup EnvOps \cup BlockOps \cup IntrospectOps
    \cup CalldataOps \cup CallOps
    \cup (PUSH1..PUSH32) \cup (DUP1..DUP16) \cup (SWAP1..SWAP16) \cup (LOG0..LOG4)

StepStop ==
  /\ CanExec({STOP})
  /\ frames' = WithTop(StepWith(Top, OpSTOP))
  /\ prev' = frames
  /\ UNCHANGED cfg0
  /\ burned' = burned + GasUsed(frames')
StepArith ==
  /\ CanExec(ArithOps)
  /\ frames' = WithTop(StepWith(Top, ArithArm))
  /\ prev' = frames
  /\ UNCHANGED cfg0
  /\ burned' = burned + GasUsed(frames')
StepLogic ==
  /\ CanExec(LogicOps)
  /\ frames' = WithTop(StepWith(Top, LogicArm))
  /\ prev' = frames
  /\ UNCHANGED cfg0
  /\ burned' = burned + GasUsed(frames')
StepSha3 ==
  /\ CanExec({SHA3})
  /\ frames' = WithTop(StepWith(Top, OpSHA3))
  /\ prev' = frames
  /\ UNCHANGED cfg0
  /\ burned' = burned + GasUsed(frames')
StepEnv ==
  /\ CanExec(EnvOps)
  /\ frames' = WithTop(StepWith(Top, EnvArm))
  /\ prev' = frames
  /\ UNCHANGED cfg0
  /\ burned' = burned + GasUsed(frames')
StepBlock ==
  /\ CanExec(BlockOps)
  /\ frames' = WithTop(StepWith(Top, BlockArm))
  /\ prev' = frames
  /\ UNCHANGED cfg0
  /\ burned' = burned + GasUsed(frames')
StepPop ==
  /\ CanExec({POP})
  /\ frames' = WithTop(StepWith(Top, OpPOP))
  /\ prev' = frames
  /\ UNCHANGED cfg0
  /\ burned' = burned + GasUsed(frames')
StepMload ==
  /\ CanExec({MLOAD})
  /\ frames' = WithTop(StepWith(Top, OpMLOAD))
  /\ prev' = frames
  /\ UNCHANGED cfg0
  /\ burned' = burned + GasUsed(frames')
StepMstore ==
  /\ CanExec({MSTORE})
  /\ frames' = WithTop(StepWith(Top, OpMSTORE))
  /\ prev' = frames
  /\ UNCHANGED cfg0
  /\ burned' = burned + GasUsed(frames')
StepMstore8 ==
  /\ CanExec({MSTORE8})
  /\ frames' = WithTop(StepWith(Top, OpMSTORE8))
  /\ prev' = frames
  /\ UNCHANGED cfg0
  /\ burned' = burned + GasUsed(frames')
StepSload ==
  /\ CanExec({SLOAD})
  /\ frames' = WithTop(StepWith(Top, OpSLOAD))
  /\ prev' = frames
  /\ UNCHANGED cfg0
  /\ burned' = burned + GasUsed(frames')
StepSstore ==
  /\ CanExec({SSTORE})
  /\ frames' = WithTop(StepWith(Top, OpSSTORE))
  /\ prev' = frames
  /\ UNCHANGED cfg0
  /\ burned' = burned + GasUsed(frames')
StepJump ==
  /\ CanExec({JUMP})
  /\ frames' = WithTop(StepWith(Top, OpJUMP))
  /\ prev' = frames
  /\ UNCHANGED cfg0
  /\ burned' = burned + GasUsed(frames')
StepJumpi ==
  /\ CanExec({JUMPI})
  /\ frames' = WithTop(StepWith(Top, OpJUMPI))
  /\ prev' = frames
  /\ UNCHANGED cfg0
  /\ burned' = burned + GasUsed(frames')
StepJumpdest ==
  /\ CanExec({JUMPDEST})
  /\ frames' = WithTop(StepWith(Top, OpJUMPDEST))
  /\ prev' = frames
  /\ UNCHANGED cfg0
  /\ burned' = burned + GasUsed(frames')
StepIntrospect ==
  /\ CanExec(IntrospectOps)
  /\ frames' = WithTop(StepWith(Top, IntrospectArm))
  /\ prev' = frames
  /\ UNCHANGED cfg0
  /\ burned' = burned + GasUsed(frames')
StepCalldata ==
  /\ CanExec(CalldataOps)
  /\ frames' = WithTop(StepWith(Top, CalldataArm))
  /\ prev' = frames
  /\ UNCHANGED cfg0
  /\ burned' = burned + GasUsed(frames')
StepPush0 ==
  /\ CanExec({PUSH0})
  /\ frames' = WithTop(StepWith(Top, OpPUSH0))
  /\ prev' = frames
  /\ UNCHANGED cfg0
  /\ burned' = burned + GasUsed(frames')
StepPushN ==
  /\ CanExec(PUSH1..PUSH32)
  /\ frames' = WithTop(StepWith(Top, OpPUSHn))
  /\ prev' = frames
  /\ UNCHANGED cfg0
  /\ burned' = burned + GasUsed(frames')
StepDup ==
  /\ CanExec(DUP1..DUP16)
  /\ frames' = WithTop(StepWith(Top, OpDUPn))
  /\ prev' = frames
  /\ UNCHANGED cfg0
  /\ burned' = burned + GasUsed(frames')
StepSwap ==
  /\ CanExec(SWAP1..SWAP16)
  /\ frames' = WithTop(StepWith(Top, OpSWAPn))
  /\ prev' = frames
  /\ UNCHANGED cfg0
  /\ burned' = burned + GasUsed(frames')
StepReturn ==
  /\ CanExec({RETURN})
  /\ frames' = WithTop(StepWith(Top, OpRETURN))
  /\ prev' = frames
  /\ UNCHANGED cfg0
  /\ burned' = burned + GasUsed(frames')
StepRevert ==
  /\ CanExec({REVERT})
  /\ frames' = WithTop(StepWith(Top, OpREVERT))
  /\ prev' = frames
  /\ UNCHANGED cfg0
  /\ burned' = burned + GasUsed(frames')
StepLog ==
  /\ CanExec(LOG0..LOG4)
  /\ frames' = WithTop(StepWith(Top, OpLOGn))
  /\ prev' = frames
  /\ UNCHANGED cfg0
  /\ burned' = burned + GasUsed(frames')
StepInvalid ==
  /\ CanExec((0..255) \ Implemented)
  /\ frames' = WithTop(StepWith(Top, OpInvalid))
  /\ prev' = frames
  /\ UNCHANGED cfg0
  /\ burned' = burned + GasUsed(frames')
StepCall ==
  /\ CanExec({CALL})
  /\ frames' = WithCall(StepCallWith(Top, OpCALL))
  /\ prev' = frames
  /\ UNCHANGED cfg0
  /\ burned' = burned + GasUsed(frames')
StepStaticcall ==
  /\ CanExec({STATICCALL})
  /\ frames' = WithCall(StepCallWith(Top, OpSTATICCALL))
  /\ prev' = frames
  /\ UNCHANGED cfg0
  /\ burned' = burned + GasUsed(frames')
StepCallcode ==
  /\ CanExec({CALLCODE})
  /\ frames' = WithCall(StepCallWith(Top, OpCALLCODE))
  /\ prev' = frames
  /\ UNCHANGED cfg0
  /\ burned' = burned + GasUsed(frames')
StepDelegatecall ==
  /\ CanExec({DELEGATECALL})
  /\ frames' = WithCall(StepCallWith(Top, OpDELEGATECALL))
  /\ prev' = frames
  /\ UNCHANGED cfg0
  /\ burned' = burned + GasUsed(frames')
StepCreate ==
  /\ CanExec({CREATE})
  /\ frames' = WithCall(StepCallWith(Top, OpCREATE))
  /\ prev' = frames
  /\ UNCHANGED cfg0
  /\ burned' = burned + GasUsed(frames')
StepCreate2 ==
  /\ CanExec({CREATE2})
  /\ frames' = WithCall(StepCallWith(Top, OpCREATE2))
  /\ prev' = frames
  /\ UNCHANGED cfg0
  /\ burned' = burned + GasUsed(frames')

\* the rest of the call/create arm of the frame below, once child.run() of
\* the executing frame has returned
AfterChild(p, c) ==
  CASE p.pending.kind = "CALL" -> AfterCALL(p, c)
    [] p.pending.kind = "STATICCALL" -> AfterSTATICCALL(p, c)
    [] p.pending.kind = "CALLCODE" -> AfterCALLCODE(p, c)
    [] p.pending.kind = "DELEGATECALL" -> AfterDELEGATECALL(p, c)
    [] p.pending.kind = "CREATE" -> AfterCREATE(p, c)
    [] p.pending.kind = "CREATE2" -> AfterCREATE2(p, c)

ChildReturn ==
  /\ Depth >= 2
  /\ RunReturned(Top)
  /\ frames' = SubSeq(frames, 1, Depth - 2) \o <<AfterChild(frames[Depth - 1], Top)>>
  /\ prev' = frames
  /\ UNCHANGED cfg0
  /\ burned' = burned + GasUsed(frames')

Next ==
  \/ StepStop \/ StepArith \/ StepLogic \/ StepSha3 \/ StepEnv \/ StepBlock
  \/ StepPop \/ StepMload \/ StepMstore \/ StepMstore8 \/ StepSload
  \/ StepSstore \/ StepJump \/ StepJumpi \/ StepJumpdest \/ StepIntrospect
  \/ StepCalldata \/ StepPush0 \/ StepPushN \/ StepDup \/ StepSwap
  \/ StepReturn \/ StepRevert \/ StepLog \/ StepInvalid
  \/ StepCall \/ StepStaticcall \/ StepCallcode \/ StepDelegatecall
  \/ StepCreate \/ StepCreate2 \/ ChildReturn

(***************************************************************************)
(* Initial states: the Evm built by Evm::new from a program and an         *)
(* EvmConfig.  The programs are assembled from the fragments below.        *)
(***************************************************************************)
P1(x) == <<PUSH1, x>>
P2(hi, lo) == <<PUSH1 + 1, hi, lo>>
\* PUSHn of the byte string bs (1 <= Len(bs) <= 32)
PushBytes(bs) == <<PUSH1 + Len(bs) - 1>> \o bs

\* key := val in storage
Store(key, val) == P1(val) \o P1(key) \o <<SSTORE>>
\* memory[off] := b
Store8(off, b) == P1(b) \o P1(off) \o <<MSTORE8>>
Log0(off, len) == P1(len) \o P1(off) \o <<LOG0>>
Log1(off, len, t) == P1(t) \o P1(len) \o P1(off) \o <<LOG0 + 1>>
Ret(off, len) == P1(len) \o P1(off) \o <<RETURN>>
Rev(off, len) == P1(len) \o P1(off) \o <<REVERT>>
INVALID == 254

\* accounts of the initial world
AddrA == ALow(170)
AddrB == ALow(187)
AddrC == ALow(204)

\* operands of CALL / CALLCODE (with value) and DELEGATECALL / STATICCALL
CallSeq(op, to, value, io, isz, oo, osz) ==
  P1(osz) \o P1(oo) \o P1(isz) \o P1(io)
    \o (IF op \in {CALL, CALLCODE} THEN P1(value) ELSE <<>>)
    \o P1(to) \o P2(255, 255) \o <<op>>

\* init code is placed at the end of memory word 0 and created from there
CreateSeq(op, value, init) ==
  PushBytes(init) \o P1(0) \o <<MSTORE>>
    \o (IF op = CREATE2 THEN P1(1) ELSE <<>>)
    \o P1(Len(init)) \o P1(32 - Len(init)) \o P1(value) \o <<op>>

Acct(bal, code, st) == [nonce |-> 0, balance |-> WFromInt(bal), code |-> code, storage |-> st]

Cfg(gas, calldata, world) ==
  [gas_limit |-> gas, calldata |-> calldata, address |-> SomeAddr(AddrA),
   caller |-> SomeAddr(ALow(1)), origin |-> SomeAddr(ALow(1)), value |-> WZero,
   gas_price |-> WOne, block |-> DefaultBlock, world |-> world]

\* code of account C: writes its own storage
CodeC == Store(2, 6) \o <<STOP>>

\* init codes for CREATE / CREATE2
InitCodes ==
  { Store(3, 4) \o Store8(0, 0) \o Ret(0, 1),
    Store(3, 4) \o Rev(0, 0),
    Store(3, 4) \o <<INVALID>> }

\* codes of account B, the callee of the top-level frame
CodesB ==
  { Store(1, 5) \o Store8(0, 187) \o Ret(0, 1),
    Store(1, 5) \o <<STOP>>,
    Store(1, 5),
    Store(1, 5) \o Store8(0, 187) \o Rev(0, 1),
    Store(1, 5) \o <<INVALID>>,
    Store(1, 5) \o <<POP>>,
    Store8(0, 65) \o Log1(0, 1, 7) \o Log0(0, 1) \o <<STOP>>,
    Store8(0, 65) \o Log0(0, 1) \o Rev(0, 0),
    CallSeq(CALL, 204, 1, 0, 0, 0, 0) \o <<STOP>>,
    CallSeq(CALL, 204, 1, 0, 0, 0, 0) \o Rev(0, 0),
    CallSeq(CALL, 204, 0, 0, 0, 0, 0) \o Rev(0, 0),
    CallSeq(CALL, 204, 1, 0, 0, 0, 0) \o <<INVALID>>,
    CallSeq(DELEGATECALL, 204, 0, 0, 0, 0, 0) \o <<STOP>>,
    CallSeq(CALLCODE, 204, 0, 0, 0, 0, 0) \o Rev(0, 0),
    CallSeq(STATICCALL, 204, 0, 0, 0, 0, 0) \o <<STOP>> }
  \cup { CreateSeq(op, 0, Store(3, 4) \o Ret(0, 0)) \o tail :
           op \in {CREATE, CREATE2}, tail \in {<<STOP>>, Rev(0, 0)} }

World0(codeB) ==
  SomeWorld([a \in {AddrA, AddrB, AddrC} |->
     CASE a = AddrA -> Acct(5, <<>>, MapInsert(EmptyMap, WFromInt(1), WFromInt(7)))
       [] a = AddrB -> Acct(3, codeB, EmptyMap)
       [] a = AddrC -> Acct(0, CodeC, EmptyMap)])

\* the top-level program around one call: a storage write and a log before
\* it, reads and a log after it
CallerCode(op, value) ==
  Store(1, 9) \o Log0(0, 0) \o CallSeq(op, 187, value, 0, 0, 0, 32)
    \o P1(1) \o <<SLOAD, SELFBALANCE>> \o Log0(0, 0) \o <<STOP>>

CallScenarios ==
  { [code |-> CallerCode(op, value), cfg |-> Cfg(gas, <<>>, World0(codeB))] :
      op \in {CALL, CALLCODE, DELEGATECALL, STATICCALL},
      value \in {0, 1, 9}, codeB \in CodesB, gas \in {200000} }

CreateScenarios ==
  { [code |-> Store(1, 9) \o CreateSeq(op, value, init) \o <<STOP>>,
     cfg |-> Cfg(200000, <<>>, World0(<<>>))] :
      op \in {CREATE, CREATE2}, value \in {0, 1, 9}, init \in InitCodes }

\* callees that finish within the 2300 stipend or a few units of gas
CodesBCheap ==
  { <<>>, <<STOP>>, Store8(0, 187) \o Ret(0, 1), Rev(0, 0), <<INVALID>>,
    Log0(0, 0) \o <<STOP>> }

\* the same caller with just enough gas to reach the call: the callee runs
\* on what is forwarded and the caller runs out at the post-charge
TightGas == {2958, 3658, 3661, 3700, 12661, 12700}

TightCallScenarios ==
  { [code |-> CallerCode(op, value), cfg |-> Cfg(gas, <<>>, World0(codeB))] :
      op \in {CALL, CALLCODE, DELEGATECALL, STATICCALL},
      value \in {0, 1}, codeB \in CodesBCheap, gas \in TightGas }

\* CREATE with less than the 32000 post-charge left after the child
TightCreateScenarios ==
  { [code |-> Store(1, 9) \o CreateSeq(op, 1, init) \o <<STOP>>,
     cfg |-> Cfg(30000, <<>>, World0(<<>>))] :
      op \in {CREATE, CREATE2}, init \in InitCodes }

\* programs without a world: storage is frame-local, calls are simulated
NoWorldCfg(gas, calldata) ==
  [Cfg(gas, calldata, NoWorld) EXCEPT !.address = NoAddr, !.caller = NoAddr,
                                      !.origin = NoAddr]

\* straight-line programs run under every gas limit in GasRange
MaxGas == 40
GasRange == 0..MaxGas

SmallPrograms ==
  { <<>>,
    P1(1) \o P1(1) \o <<ADD, STOP>>,
    P1(5) \o P1(3) \o <<SUB, STOP>>,
    P1(0) \o <<JUMP>>,
    <<JUMPDEST>> \o P1(0) \o <<JUMP>>,
    Store8(0, 65) \o Log0(0, 1) \o <<STOP>>,
    P1(7) \o P1(0) \o <<MSTORE>> \o P1(0) \o <<MLOAD, STOP>>,
    P1(0) \o <<MSTORE>>,
    <<ADD>>, <<ISZERO, MUL>>, P1(3) \o <<DIV, LT>>,
    P1(1) \o P1(6) \o <<JUMPI, INVALID, JUMPDEST>> \o Ret(0, 2),
    P1(0) \o P1(9) \o <<JUMPI>> \o Rev(0, 1),
    P1(1) \o P1(9) \o <<JUMPI>>,
    <<PUSH1 + 1, 171>>,
    <<PUSH0, DUP1, DUP1 + 1, SWAP1, POP, SWAP1 + 2>>,
    Log1(0, 1, 7) }

SmallScenarios ==
  { [code |-> code, cfg |-> NoWorldCfg(gas, <<>>)] :
      code \in SmallPrograms, gas \in GasRange }

\* one pass over the arms that the call scenarios do not reach
Calldata0 == <<1, 2, 3, 4, 5>>

MiscPrograms ==
  { P1(3) \o P1(10) \o <<ADD>> \o P1(3) \o <<MUL>> \o P1(50) \o <<SUB>>
      \o P1(4) \o <<DIV>> \o P1(2) \o <<LT>> \o P1(1) \o <<GT>> \o P1(0)
      \o <<EQ, ISZERO>> \o P1(12) \o <<AND>> \o P1(3) \o <<OR>> \o P1(5)
      \o <<XOR, NOT, NOT>> \o P1(0) \o <<MSTORE>> \o P1(32) \o P1(0)
      \o <<SHA3, POP, PC, MSIZE, GAS, POP, POP, POP, STOP>>,
    <<ADDRESS, BALANCE, ORIGIN, CALLER, CALLVALUE, GASPRICE>>
      \o P1(204) \o <<EXTCODESIZE>> \o P1(204) \o <<EXTCODEHASH>>
      \o P1(4) \o P1(1) \o P1(2) \o P1(204) \o <<EXTCODECOPY>>
      \o <<RETURNDATASIZE>> \o P1(2) \o P1(0) \o P1(40) \o <<RETURNDATACOPY>>
      \o <<BLOCKHASH, COINBASE, TIMESTAMP, NUMBER, DIFFICULTY_PRAND,
           GASLIMIT_OP, CHAINID, SELFBALANCE, BASEFEE, STOP>>,
    P1(2) \o <<CALLDATALOAD, CALLDATASIZE>> \o P1(8) \o P1(1) \o P1(3)
      \o <<CALLDATACOPY, CODESIZE>> \o P1(4) \o P1(0) \o P1(64)
      \o <<CODECOPY>> \o P1(33) \o <<MLOAD>> \o Store(1, 0) \o Store(1, 0)
      \o Store(2, 3) \o P1(2) \o <<SLOAD>> \o Ret(0, 4),
    Store(1, 5) \o Store8(0, 65) \o Log1(0, 1, 7) \o Rev(0, 1),
    Store(1, 5) \o Log0(0, 0) \o <<POP>> }

MiscScenarios ==
  { [code |-> code, cfg |-> Cfg(100000, Calldata0, World0(<<>>))] :
      code \in MiscPrograms }
  \cup
  { [code |-> code, cfg |-> NoWorldCfg(100000, Calldata0)] :
      code \in MiscPrograms
        \cup { CallSeq(op, 187, 0, 0, 0, 0, 4) \o <<STOP>> :
                 op \in {CALL, CALLCODE, DELEGATECALL, STATICCALL} }
        \cup { CreateSeq(op, 0, <<STOP>>) \o <<STOP>> : op \in {CREATE, CREATE2} } }

\* loops that push until the stack is full: `body` is repeated Unroll times
\* per iteration, `tail` pushes the jump target
Unroll == 16
Repeat(body, n) == [i \in 1..(n * Len(body)) |-> body[((i - 1) % Len(body)) + 1]]

StackLoop(prefix, body, tail) ==
  prefix \o <<JUMPDEST>> \o Repeat(body, Unroll) \o tail \o <<JUMP>>

StackLoops ==
  { StackLoop(<<PUSH0>>, body, P1(1)) :
      body \in {<<PUSH0>>, P1(7), <<DUP1>>, <<PC>>, <<CALLER>>} }
  \cup { StackLoop(<<>>, <<PUSH0>>, tail) : tail \in {P1(0), <<PUSH0>>} }

StackScenarios ==
  { [code |-> code, cfg |-> NoWorldCfg(gas, <<>>)] :
      code \in StackLoops, gas \in {10000} }

\* PUSH1 x; PUSH1 y; ADD; STOP over sample bytes and every gas limit
ByteSamples == {0, 1, 128, 255}

AddScenarios ==
  { [code |-> P1(x) \o P1(y) \o <<ADD, STOP>>, cfg |-> NoWorldCfg(gas, <<>>)] :
      x \in ByteSamples, y \in ByteSamples, gas \in GasRange }

\* calls to the identity precompile at address 4 with two input bytes
PrecompileScenarios ==
  { [code |-> Store8(0, 222) \o Store8(1, 173)
                \o CallSeq(op, 4, value, 0, 2, 0, 0) \o <<STOP>>,
     cfg |-> cfg] :
      op \in {CALL, CALLCODE, DELEGATECALL, STATICCALL}, value \in {0, 9},
      cfg \in {Cfg(100000, <<>>, World0(<<>>)), NoWorldCfg(100000, <<>>)} }

\* callers whose two-byte output region holds non-zero bytes before the call
PadCodesB ==
  { Store8(0, 187) \o Ret(0, 1),
    Store8(0, 187) \o Store8(1, 170) \o Store8(2, 9) \o Ret(0, 3),
    Store8(0, 187) \o Rev(0, 1),
    <<INVALID>> }

PadScenarios ==
  { [code |-> Store8(0, 17) \o Store8(1, 34) \o Store8(2, 51)
                \o CallSeq(op, 187, 0, 0, 0, 0, 2) \o <<STOP>>,
     cfg |-> Cfg(200000, <<>>, World0(codeB))] :
      op \in {CALL, CALLCODE, DELEGATECALL, STATICCALL}, codeB \in PadCodesB }

\* the endless loop JUMPDEST; PUSH1 0; JUMP with gas limit 100
LoopCode == <<JUMPDEST>> \o P1(0) \o <<JUMP>>
LoopScenarios == { [code |-> LoopCode, cfg |-> NoWorldCfg(100, <<>>)] }

\* MSTORE / MLOAD round trips and single-byte stores.  Offsets and values
\* are byte strings pushed with PUSHn; Off64 is the offset 2^64.
Off64 == <<1, 0, 0, 0, 0, 0, 0, 0, 0>>
MemValues == { <<7>>, <<1, 2, 3>>, Mk([i \in 1..WORD_BYTES |-> 255 - i]) }
\* an offset o with the offset m of a one-byte store outside [o, o + 32)
MemCases ==
  { [o |-> <<0>>, m |-> 32], [o |-> <<1>>, m |-> 0], [o |-> <<33>>, m |-> 32],
    [o |-> <<33>>, m |-> 65], [o |-> Off64, m |-> 0] }

\* MSTORE(o, v); MLOAD(o)
RoundTrip(o, v) ==
  PushBytes(v) \o PushBytes(o) \o <<MSTORE>> \o PushBytes(o) \o <<MLOAD, STOP>>
\* MSTORE(o, v); MSTORE8(m, 170); MLOAD(o)
RoundTripAround(o, v, m) ==
  PushBytes(v) \o PushBytes(o) \o <<MSTORE>> \o Store8(m, 170)
    \o PushBytes(o) \o <<MLOAD, STOP>>
\* three bytes stored at 0, 1, 2, then MSTORE8(o, v)
ByteStore(o, v) ==
  Store8(0, 17) \o Store8(1, 34) \o Store8(2, 51)
    \o PushBytes(v) \o PushBytes(o) \o <<MSTORE8, STOP>>

MemScenarios ==
  { [code |-> code, cfg |-> NoWorldCfg(100, <<>>)] :
      code \in { RoundTrip(c.o, v) : c \in MemCases, v \in MemValues }
        \cup { RoundTripAround(c.o, v, c.m) : c \in MemCases, v \in MemValues }
        \cup { ByteStore(o, v) : o \in {<<0>>, <<1>>, <<5>>, Off64},
                                 v \in MemValues } }

\* a value transfer to an account whose code is SELFBALANCE; STOP (B), to
\* the calling account itself (A) and to an account not yet in the world
BalanceCode == <<SELFBALANCE, STOP>>
BalanceScenarios ==
  { [code |-> CallSeq(CALL, to, v, 0, 0, 0, 0) \o <<SELFBALANCE, STOP>>,
     cfg |-> Cfg(200000, <<>>, World0(BalanceCode))] :
      to \in {187, 170, 9}, v \in {0, 1, 5, 6} }

\* JUMP to the destination word 2^64 + 11, 11 being the offset of the
\* JUMPDEST, and to the word 11 itself
JumpWrapCode == PushBytes(<<1, 0, 0, 0, 0, 0, 0, 0, 11>>) \o <<JUMP, JUMPDEST, STOP>>
JumpNearCode == PushBytes(<<0, 0, 0, 0, 0, 0, 0, 0, 11>>) \o <<JUMP, JUMPDEST, STOP>>
JumpFarCode == PushBytes(<<1, 0, 0, 0, 0, 0, 0, 0, 10>>) \o <<JUMP, JUMPDEST, STOP>>
JumpScenarios ==
  { [code |-> code, cfg |-> NoWorldCfg(100, <<>>)] :
      code \in {JumpWrapCode, JumpNearCode, JumpFarCode} }

\* one binary instruction on two pushed operands above a third word; the
\* operands include 0, 2^256 - 1 and 2^256 - 2
WordSamples ==
  { <<0>>, <<1>>, <<3>>, <<5>>, <<1, 0>>, Mk([i \in 1..WORD_BYTES |-> 255]),
    Mk([i \in 1..WORD_BYTES |-> IF i = WORD_BYTES THEN 254 ELSE 255]) }
BinaryOps == {ADD, MUL, SUB, DIV, LT, GT}
BinaryScenarios ==
  { [code |-> P1(9) \o PushBytes(a) \o PushBytes(b) \o <<op, STOP>>,
     cfg |-> NoWorldCfg(100, <<>>)] :
      a \in WordSamples, b \in WordSamples, op \in BinaryOps }

\* MSIZE after a one-byte store at offset 0, after a word store at offset 1
\* and with untouched memory
MsizeScenarios ==
  { [code |-> code, cfg |-> NoWorldCfg(100, <<>>)] :
      code \in { Store8(0, 1) \o <<MSIZE, STOP>>,
                 P1(7) \o P1(1) \o <<MSTORE, MSIZE, STOP>>,
                 P1(7) \o P1(0) \o <<MSTORE, MSIZE, STOP>>,
                 <<MSIZE, STOP>> } }

\* SHA3 over slices of 0 to 65 bytes, of fresh memory and of memory that
\* holds a stored word; MLOAD of fresh memory
Sha3Scenarios ==
  { [code |-> pre \o P1(size) \o P1(off) \o <<SHA3, STOP>>,
     cfg |-> NoWorldCfg(100, <<>>)] :
      pre \in {<<>>, P1(7) \o P1(0) \o <<MSTORE>>, P1(9)},
      size \in {0, 1, 32, 33, 64, 65}, off \in {0, 1} }
    \cup { [code |-> P1(off) \o <<MLOAD, STOP>>, cfg |-> NoWorldCfg(100, <<>>)] :
             off \in {0, 40} }

\* CALLDATACOPY and CODECOPY of 0 to 33 bytes from inside, across and beyond
\* the end of the source, into fresh memory and over a stored word
CopyCalldata == <<17, 34, 51, 68, 85>>
CopyScenarios ==
  { [code |-> pre \o P1(s) \o P1(d) \o P1(m) \o <<op, STOP>>,
     cfg |-> NoWorldCfg(100, CopyCalldata)] :
      pre \in {<<>>, PushBytes(Mk([i \in 1..WORD_BYTES |-> 200 + i])) \o P1(0) \o <<MSTORE>>},
      s \in {0, 1, 4, 33}, d \in {0, 3, 5, 40}, m \in {0, 2, 31},
      op \in {CALLDATACOPY, CODECOPY} }

\* CALLDATALOAD at offsets inside, at and beyond the end of 5 and of 40
\* bytes of calldata
LongCalldata == Mk([i \in 1..40 |-> 100 + i])
LoadScenarios ==
  { [code |-> P1(9) \o P1(o) \o <<CALLDATALOAD, STOP>>,
     cfg |-> NoWorldCfg(100, cd)] :
      o \in {0, 2, 4, 5, 8, 9, 39, 40, 72}, cd \in {CopyCalldata, LongCalldata, <<>>} }

\* stores and loads on two keys, without a world and as account A of World0
StoragePrograms ==
  { Store(2, 6) \o P1(2) \o <<SLOAD>> \o P1(3) \o <<SLOAD, STOP>>,
    Store(2, 6) \o Store(3, 8) \o P1(2) \o <<SLOAD>> \o Store(2, 0) \o P1(2)
      \o <<SLOAD>> \o P1(3) \o <<SLOAD, STOP>>,
    P1(1) \o <<SLOAD>> \o Store(1, 0) \o P1(1) \o <<SLOAD, STOP>> }
StorageScenarios ==
  { [code |-> code, cfg |-> cfg] :
      code \in StoragePrograms,
      cfg \in { NoWorldCfg(60000, <<>>), Cfg(60000, <<>>, World0(<<>>)),
                [Cfg(60000, <<>>, World0(<<>>)) EXCEPT !.address = SomeAddr(ALow(9))] } }

\* LOG2 and LOG4 with distinct topics over one stored byte and over memory
\* not yet touched, followed by a second log
TopicPrograms ==
  { Store8(0, 65) \o P1(8) \o P1(7) \o P1(1) \o P1(0) \o <<LOG0 + 2>> \o Log0(0, 1) \o <<STOP>>,
    P1(4) \o P1(3) \o P1(2) \o P1(1) \o P1(2) \o P1(1) \o <<LOG4>> \o Log1(0, 3, 9) \o <<STOP>>,
    Store8(0, 65) \o Log0(0, 1) \o <<STOP>> }
TopicScenarios ==
  { [code |-> code, cfg |-> NoWorldCfg(100, <<>>)] : code \in TopicPrograms }

\* instructions that find fewer operands than they consume
ShortStackPrograms ==
  { <<JUMP>>, P1(1) \o <<JUMPI>>, <<DUP1>>, P1(1) \o <<DUP1 + 1>>, P1(1) \o <<SWAP1>>,
    P1(1) \o P1(2) \o <<CALL>>, P1(1) \o <<STATICCALL>>, P1(1) \o <<CREATE>>,
    <<SHA3>>, P1(1) \o <<RETURN>>, P1(1) \o P1(2) \o <<CALLDATACOPY>>,
    <<EQ>>, P1(1) \o <<XOR>>, <<NOT>>, P1(1) \o <<LOG0>>, <<BALANCE>> }
ShortStackScenarios ==
  { [code |-> code, cfg |-> Cfg(100, <<>>, World0(<<>>))] : code \in ShortStackPrograms }

Scenarios ==
  ShortStackScenarios \cup TopicScenarios \cup StorageScenarios \cup LoadScenarios \cup CopyScenarios \cup Sha3Scenarios \cup MsizeScenarios \cup BinaryScenarios \cup JumpScenarios \cup BalanceScenarios \cup MemScenarios \cup LoopScenarios \cup PadScenarios \cup CallScenarios \cup CreateScenarios \cup TightCallScenarios
    \cup TightCreateScenarios \cup SmallScenarios \cup MiscScenarios
    \cup StackScenarios \cup AddScenarios \cup PrecompileScenarios

Init ==
  \E sc \in Scenarios :
     /\ frames = <<EvmNew(sc.code, sc.cfg)>>
     /\ prev = <<>>
     /\ burned = 0
     /\ cfg0 = sc

Spec == Init /\ [][Next]_vars

(***************************************************************************)
(* The last transition, read from the history variable                     *)
(***************************************************************************)
\* the last transition was an instruction of the frame Pre; Post is that
\* frame afterwards (a started child, if any, sits above it)
Stepped == Len(prev) >= 1 /\ Len(frames) >= Len(prev)
Pre == prev[Len(prev)]
Post == frames[Len(prev)]
StartedChild == Len(frames) = Len(prev) + 1

\* the last transition was the return of child.run() into the call/create
\* arm of the frame Before; After is that frame when the arm has finished
Returned == Len(prev) >= 2 /\ Len(frames) = Len(prev) - 1
Child == prev[Len(prev)]
Before == prev[Len(prev) - 1]
After == frames[Len(frames)]

ChildReverted == ~RunErr(Child) /\ Child.halted = "Revert"
ChildCommitted == ~RunErr(Child) /\ Child.halted # "Revert"

\* the value operand of a CALL, CALLCODE, CREATE or CREATE2 about to execute
ValueOperand(f) == IF Op(f) \in {CALL, CALLCODE} THEN Arg(f, 3) ELSE Arg(f, 1)
OperandCount(f) ==
  CASE Op(f) \in {CALL, CALLCODE} -> 7
    [] Op(f) \in {DELEGATECALL, STATICCALL} -> 6
    [] Op(f) = CREATE -> 3
    [] Op(f) = CREATE2 -> 4
    [] Op(f) = SSTORE -> 2
    [] Op(f) \in LOG0..LOG4 -> 2 + (Op(f) - LOG0)
    [] OTHER -> 0

\* the frame is about to execute a value-moving instruction with a world,
\* the operands and the gas for it, and a balance below the value
ShortOfBalance(f) ==
  /\ Op(f) \in {CALL, CALLCODE, CREATE, CREATE2}
  /\ f.world.some /\ f.gas > 0 /\ Len(f.stack) >= OperandCount(f)
  /\ ~WGe(GetAccount(f.world.accounts, unwrap_or_default(f.address)).balance,
          ValueOperand(f))

(***************************************************************************)
(* C1: a CALL, CALLCODE, DELEGATECALL, CREATE or CREATE2 of a frame with a *)
(* world whose child halts with Revert, ends with an error, or is never    *)
(* started because the balance is below the value, leaves the parent's     *)
(* world as it was before the instruction.                                 *)
(***************************************************************************)
C1_FailedChildKeepsWorld ==
  /\ (Returned /\ Before.pending.kind # "STATICCALL"
        /\ (RunErr(Child) \/ ChildReverted))
       => After.world = Before.world
  /\ (Stepped /\ ShortOfBalance(Pre))
       => ~StartedChild /\ Post.world = Pre.world

C1_Witness_Reverted ==
  /\ Returned /\ Before.pending.kind \in {"CALL", "CREATE"}
  /\ ChildReverted /\ Child.world # Before.world
  /\ After.world = Before.world

(***************************************************************************)
(* C2: whatever runs below a STATICCALL, the frame that issued the         *)
(* STATICCALL keeps its world and its logs, and when the child's world was *)
(* changed by something below it the STATICCALL pushes 0.                  *)
(***************************************************************************)
C2_StaticCallKeepsWorldAndLogs ==
  (Returned /\ Before.pending.kind = "STATICCALL")
    => /\ After.world = Before.world
       /\ After.logs = Before.logs
       /\ Child.world # Before.world
            => After.stack = Append(Before.stack, WZero)

(***************************************************************************)
(* C3: in a frame with is_static set, SSTORE, LOG0..LOG4, CREATE, CREATE2  *)
(* and CALL with a non-zero value fail with StaticViolation, start no      *)
(* child and change neither storage, logs nor the world.                   *)
(***************************************************************************)
Mutating(f) ==
  \/ Op(f) \in {SSTORE, CREATE, CREATE2} \cup (LOG0..LOG4)
  \/ Op(f) = CALL /\ Len(f.stack) >= 7 /\ ~WIsZero(Arg(f, 3))

C3_StaticFrameRejectsMutation ==
  (Stepped /\ Pre.is_static /\ Pre.gas > 0 /\ Mutating(Pre)
     /\ Len(Pre.stack) >= OperandCount(Pre))
    => /\ Post.err = "StaticViolation"
       /\ ~StartedChild
       /\ Post.storage = Pre.storage /\ Post.logs = Pre.logs
       /\ Post.world = Pre.world

(***************************************************************************)
(* C4: when the child of a STATICCALL halts with Revert or ends with an    *)
(* error, the parent's world is what it was before the STATICCALL.         *)
(***************************************************************************)
C4_FailedStaticChildDiscarded ==
  (Returned /\ Before.pending.kind = "STATICCALL"
     /\ (RunErr(Child) \/ ChildReverted))
    => After.world = Before.world

(***************************************************************************)
(* C5: when the child of a CALL, CALLCODE or DELEGATECALL halts with Stop  *)
(* or Return or runs off the end of its code, the child's final world      *)
(* becomes the parent's world, and SLOAD and SELFBALANCE of a frame read   *)
(* the world the frame holds.                                              *)
(***************************************************************************)
OwnAccount(f) == GetAccount(f.world.accounts, unwrap_or_default(f.address))
StorageAt(st, key) == IF key \in DOMAIN st THEN st[key] ELSE WZero

C5_CommittedChildWorldReplaces ==
  /\ (Returned /\ Before.pending.kind \in {"CALL", "CALLCODE", "DELEGATECALL"}
        /\ ChildCommitted)
       => After.world = Child.world
  /\ (Stepped /\ Pre.world.some /\ Pre.address.some /\ Post.err = "Ok"
        /\ Op(Pre) = SLOAD)
       => Post.stack[Len(Post.stack)]
            = StorageAt(OwnAccount(Pre).storage, Arg(Pre, 1))
  /\ (Stepped /\ Pre.world.some /\ Pre.address.some /\ Post.err = "Ok"
        /\ Op(Pre) = SELFBALANCE)
       => Post.stack[Len(Post.stack)] = OwnAccount(Pre).balance

C5_Witness_Committed ==
  /\ Returned /\ Before.pending.kind \in {"CALL", "CALLCODE", "DELEGATECALL"}
  /\ ChildCommitted /\ Child.halted = "Return"
  /\ OwnAccount(Child).storage # OwnAccount(Before).storage
  /\ After.world = Child.world /\ After.err = "Ok"

(***************************************************************************)
(* C6: when a child commits, the logs it emitted are appended, in order,   *)
(* to the logs the parent had emitted before the call.                     *)
(***************************************************************************)
C6_CommittedChildLogsAppended ==
  (Returned /\ ChildCommitted) => After.logs = Before.logs \o Child.logs

(***************************************************************************)
(* C7: the logs and storage writes of a frame that halts with Revert are   *)
(* discarded: those of a child never reach the parent, and after the       *)
(* top-level frame has halted with Revert its logs are empty and its       *)
(* storage and world are the initial ones.                                 *)
(***************************************************************************)
C7_RevertDiscardsLogsAndStorage ==
  /\ (Returned /\ ChildReverted)
       => After.world = Before.world /\ After.logs = Before.logs
  /\ (Depth = 1 /\ frames[1].halted = "Revert")
       => /\ frames[1].logs = <<>>
          /\ frames[1].storage = EmptyMap
          /\ frames[1].world = cfg0.cfg.world

(***************************************************************************)
(* C8: the stack of every frame holds at most STACK_LIMIT words, and a     *)
(* PUSH0, PUSHn or DUPk executed on a full stack fails with StackOverflow  *)
(* and leaves the stack as it was.                                         *)
(***************************************************************************)
Pushing(f) == Op(f) \in {PUSH0} \cup (PUSH1..PUSH32) \cup (DUP1..DUP16)

C8_StackWithinLimit ==
  /\ \A i \in 1..Len(frames) : Len(frames[i].stack) \in 0..STACK_LIMIT
  /\ (Stepped /\ Pre.gas > 0 /\ Len(Pre.stack) = STACK_LIMIT /\ Pushing(Pre))
       => Post.err = "StackOverflow" /\ Post.stack = Pre.stack

C8_Witness_Overflow ==
  /\ Stepped /\ Len(Pre.stack) = STACK_LIMIT /\ Op(Pre) = DUP1
  /\ Post.err = "StackOverflow" /\ Len(Post.stack) = STACK_LIMIT

(***************************************************************************)
(* C9: a step that returns an error other than OutOfGas leaves stack,      *)
(* memory, storage, world, logs, pc and halt state as they were; an        *)
(* instruction that finds too few operands leaves those present.           *)
(***************************************************************************)
SameButGas(f, g) ==
  /\ f.stack = g.stack /\ f.memory = g.memory /\ f.storage = g.storage
  /\ f.world = g.world /\ f.logs = g.logs /\ f.pc = g.pc
  /\ f.halted = g.halted

C9_FailedStepIsAtomic ==
  (Stepped /\ ~StartedChild /\ Post.err \notin {"Ok", "OutOfGas"})
    => SameButGas(Pre, Post)

(***************************************************************************)
(* C10: a step that fails with OutOfGas changes nothing but the gas        *)
(* counter; for the call and create arms, whose flat charge comes after    *)
(* the child has run, world, logs and pc are those before the instruction. *)
(***************************************************************************)
C10_OutOfGasHasNoSideEffect ==
  /\ (Stepped /\ ~StartedChild /\ Post.err = "OutOfGas")
       => SameButGas(Pre, Post)
  /\ (Returned /\ After.err = "OutOfGas")
       => /\ After.world = Before.world /\ After.logs = Before.logs
          /\ After.pc = Before.pc

(***************************************************************************)
(* C11: in every frame 0 <= pc <= code.len(); no instruction, a PUSHn      *)
(* whose immediate is cut off by the end of the code included, sets pc     *)
(* beyond code.len().                                                      *)
(***************************************************************************)
C11_PcWithinCode ==
  \A i \in 1..Len(frames) : frames[i].pc \in 0..Len(frames[i].code)

(***************************************************************************)
(* C12: when a JUMP, or a JUMPI with a non-zero condition, completes       *)
(* without error the new pc is in the JUMPDEST set computed from the       *)
(* frame's code at construction, and no step changes that set.             *)
(***************************************************************************)
Jumping(f) ==
  \/ Op(f) = JUMP
  \/ Op(f) = JUMPI /\ Len(f.stack) >= 2 /\ ~WIsZero(Arg(f, 2))

C12_JumpLandsOnJumpdest ==
  /\ \A i \in 1..Len(frames) :
       frames[i].jumpdests = scan_jumpdests(frames[i].code)
  /\ (Stepped /\ Pre.gas > 0 /\ Jumping(Pre) /\ Post.err = "Ok")
       => /\ Post.pc \in scan_jumpdests(Pre.code)
          /\ Post.code = Pre.code /\ Post.jumpdests = Pre.jumpdests

C12_Witness_JumpiTaken ==
  /\ Stepped /\ Op(Pre) = JUMPI /\ Jumping(Pre) /\ Post.err = "Ok"
  /\ Post.pc # Pre.pc + 1 /\ Post.pc \in Post.jumpdests
  /\ At(Post.code, Post.pc) = JUMPDEST

(***************************************************************************)
(* scan_jumpdests over every byte string up to MaxCodeLen over a small     *)
(* alphabet; the frames built from them run their jumps and pushes         *)
(***************************************************************************)
MaxCodeLen == 4
ScanAlphabet == {STOP, JUMP, JUMPDEST, PUSH0, PUSH1, PUSH1 + 1}
ScanCodes == UNION { [1..n -> ScanAlphabet] : n \in 0..MaxCodeLen }

ScanInit ==
  \E code \in ScanCodes :
     /\ frames = <<EvmNew(code, NoWorldCfg(50, <<>>))>>
     /\ prev = <<>>
     /\ burned = 0
     /\ cfg0 = [code |-> code, cfg |-> NoWorldCfg(50, <<>>)]

ScanNext == StepStop \/ StepJump \/ StepJumpdest \/ StepPush0 \/ StepPushN

ScanSpec == ScanInit /\ [][ScanNext]_vars

\* number of immediate bytes after an opcode byte
ImmLen(op) == IF op >= PUSH1 /\ op <= PUSH32 THEN op - PUSH1 + 1 ELSE 0

\* the offsets at which linear decoding from offset 0 finds an opcode
InstrStart(code) ==
  LET F[p \in 0..(Len(code) - 1)] ==
        p = 0 \/ \E q \in 0..(p - 1) : F[q] /\ q + 1 + ImmLen(At(code, q)) = p
  IN F

RefJumpdests(code) ==
  { p \in 0..(Len(code) - 1) : At(code, p) = JUMPDEST /\ InstrStart(code)[p] }

(***************************************************************************)
(* C13: scan_jumpdests(code) is the set of offsets holding 0x5B that are   *)
(* not inside the immediate of a PUSH1..PUSH32 found by decoding linearly  *)
(* from offset 0, also when the last immediate runs past the end.          *)
(***************************************************************************)
C13_ScanJumpdestsIsReference ==
  /\ scan_jumpdests(cfg0.code) = RefJumpdests(cfg0.code)
  /\ \A i \in 1..Len(frames) :
       frames[i].jumpdests = RefJumpdests(frames[i].code)

\* a JUMPDEST byte inside an immediate, one after it, and a cut-off PUSH2
C13_Witness_HiddenJumpdest ==
  /\ cfg0.code = <<PUSH1, JUMPDEST, JUMPDEST, PUSH1 + 1>>
  /\ frames[1].jumpdests = {2}
  /\ Stepped /\ Op(Pre) = PUSH1

(***************************************************************************)
(* C14: PUSH1 5; PUSH1 3; SUB; STOP halts with exactly one word on the     *)
(* stack, 2^256 - 2, the wrapped difference top - second = 3 - 5.          *)
(***************************************************************************)
WMaxMinusOne == Mk([i \in 1..WORD_BYTES |-> IF i = WORD_BYTES THEN 254 ELSE 255])

C14_SubIsTopMinusSecond ==
  (Depth = 1 /\ cfg0.code = P1(5) \o P1(3) \o <<SUB, STOP>>
     /\ frames[1].halted = "Stop")
    => frames[1].stack = <<WMaxMinusOne>>

(***************************************************************************)
(* C15: for bytes x, y and a gas limit above 9, PUSH1 x; PUSH1 y; ADD;     *)
(* STOP ends without error, halted Stop, with the single word x + y on the *)
(* stack and 9 gas used.                                                   *)
(***************************************************************************)
IsAddProgram(code) ==
  /\ Len(code) = 6 /\ code[1] = PUSH1 /\ code[3] = PUSH1
  /\ code[5] = ADD /\ code[6] = STOP

C15_SimpleAdd ==
  (Depth = 1 /\ IsAddProgram(cfg0.code) /\ cfg0.cfg.gas_limit > 9
     /\ ~Running(frames[1]))
    => /\ frames[1].err = "Ok" /\ frames[1].halted = "Stop"
       /\ frames[1].stack = <<WFromInt(cfg0.code[2] + cfg0.code[4])>>
       /\ cfg0.cfg.gas_limit - frames[1].gas = 9

C15_Witness_AddDone ==
  /\ Depth = 1 /\ IsAddProgram(cfg0.code)
  /\ cfg0.code[2] = 255 /\ cfg0.code[4] = 255 /\ cfg0.cfg.gas_limit = 10
  /\ frames[1].halted = "Stop" /\ frames[1].gas = 1
  /\ frames[1].stack = <<WFromInt(510)>>

(***************************************************************************)
(* C16: a CALL, CALLCODE, DELEGATECALL or STATICCALL to address 4 that     *)
(* completes starts no child, pushes 1 and leaves the input bytes          *)
(* memory[inOff..inOff+inLen] in last_return_data, with or without a       *)
(* world and whatever the value and the sender's balance.                  *)
(***************************************************************************)
IsCall(f) == Op(f) \in {CALL, CALLCODE, DELEGATECALL, STATICCALL}
CallTarget(f) == u256_to_h160(Arg(f, 2))
InOff(f) == u256_to_usize(Arg(f, IF Op(f) \in {CALL, CALLCODE} THEN 4 ELSE 3))
InLen(f) == u256_to_usize(Arg(f, IF Op(f) \in {CALL, CALLCODE} THEN 5 ELSE 4))

C16_IdentityPrecompile ==
  (Stepped /\ Pre.gas > 0 /\ IsCall(Pre) /\ Len(Pre.stack) >= OperandCount(Pre)
     /\ CallTarget(Pre) = ALow(4) /\ Post.err = "Ok")
    => /\ ~StartedChild
       /\ Post.stack[Len(Post.stack)] = WOne
       /\ Post.last_return_data
            = Slice(Post.memory, InOff(Pre), InOff(Pre) + InLen(Pre))

(***************************************************************************)
(* C17: when a CALL, CALLCODE, DELEGATECALL or STATICCALL completes after  *)
(* its child has run, the parent has pushed 1 if the child succeeded and 0 *)
(* if it reverted or failed; last_return_data is the child's return data   *)
(* on success and on revert and empty on error; the output region of       *)
(* memory holds the first outLen bytes of it, zero-padded; the parent's pc *)
(* is the call site plus 1; and a child's error does not become an error   *)
(* of the parent.                                                          *)
(***************************************************************************)
CallKinds == {"CALL", "CALLCODE", "DELEGATECALL", "STATICCALL"}
CallReturned == Returned /\ Before.pending.kind \in CallKinds

C17_CallCompletion ==
  /\ (CallReturned /\ After.err = "Ok")
       => /\ After.stack[Len(After.stack)] = WBool(ChildCommitted)
          /\ After.last_return_data
               = (IF RunErr(Child) THEN <<>> ELSE Child.return_data)
          /\ \A i \in 0..(Before.pending.osz - 1) :
               At(After.memory, Before.pending.oo + i)
                 = (IF i < Len(After.last_return_data)
                    THEN At(After.last_return_data, i) ELSE 0)
          /\ After.pc = Before.pc + 1
          /\ At(Before.code, Before.pc) \in {CALL, CALLCODE, DELEGATECALL, STATICCALL}
  /\ (CallReturned /\ RunErr(Child) /\ Before.gas >= 40) => After.err = "Ok"

\* a reverted child returned one byte into a two-byte output region that
\* held non-zero bytes
C17_Witness_RevertPadded ==
  /\ CallReturned /\ ChildReverted /\ After.err = "Ok"
  /\ Child.return_data = <<187>>
  /\ Before.pending.osz = 2
  /\ Slice(Before.memory, 0, 3) = <<17, 34, 51>>
  /\ Slice(After.memory, 0, 3) = <<187, 0, 51>>
  /\ After.stack[Len(After.stack)] = WZero
  /\ After.last_return_data = <<187>>

(***************************************************************************)
(* halt_status of the command-line front end: the halt state it reports    *)
(* for an Evm after run().                                                 *)
(***************************************************************************)
halt_status(f) ==
  CASE f.halted = "Stop" -> "STOP"
    [] f.halted = "Return" -> "RETURN"
    [] f.halted = "Revert" -> "REVERT"
    [] f.halted = "None" -> IF f.pc >= Len(f.code) THEN "EOF" ELSE "RUNNING"

\* run() has returned Ok(()) for the frame
RunOk(f) == f.err = "Ok" /\ ~Running(f)

(***************************************************************************)
(* C18: a run that returned Ok without RETURN or REVERT, in particular one *)
(* that ended because pc reached code.len() (empty code included), has     *)
(* halt state Stop and empty return data, and is reported exactly as a run *)
(* that executed STOP.                                                     *)
(***************************************************************************)
C18_EndOfCodeIsStop ==
  \A i \in 1..Len(frames) :
    (RunOk(frames[i]) /\ frames[i].halted \notin {"Return", "Revert"})
      => /\ frames[i].halted = "Stop"
         /\ frames[i].return_data = <<>>
         /\ halt_status(frames[i]) = "STOP"

(***************************************************************************)
(* Termination is checked on the scenarios below: the endless loop, code   *)
(* that calls itself until the gas is gone, the small programs under every *)
(* gas limit, one pass over every arm, and the creations.                  *)
(***************************************************************************)
RecCode(op) == CallSeq(op, 187, 0, 0, 0, 0, 0) \o <<STOP>>
RecScenarios ==
  { [code |-> RecCode(op), cfg |-> Cfg(3000, <<>>, World0(RecCode(op)))] :
      op \in {CALL, STATICCALL, CALLCODE, DELEGATECALL} }

TermScenarios ==
  LoopScenarios \cup RecScenarios \cup SmallScenarios \cup MiscScenarios
    \cup CreateScenarios

TermInit ==
  \E sc \in TermScenarios :
     /\ frames = <<EvmNew(sc.code, sc.cfg)>>
     /\ prev = <<>>
     /\ burned = 0
     /\ cfg0 = sc

\* the outermost run() has returned
Finished == Depth = 1 /\ ~Running(frames[1])

(***************************************************************************)
(* Evm::run keeps calling step while the frame can run, and a call arm     *)
(* continues as soon as child.run() has returned: weak fairness of Next,   *)
(* WF_vars(Next), written out with ENABLED <<Next>>_vars as ~Finished.     *)
(***************************************************************************)
RunLoopFairness == []<>Finished \/ []<><<Next>>_vars

FairSpec == TermInit /\ [][Next]_vars /\ RunLoopFairness

InLoop == cfg0.code = LoopCode /\ cfg0.cfg.gas_limit = 100
\* completed passes of the loop body, 12 gas each (JUMPDEST 1, PUSH1 3, JUMP 8)
LoopIterations == (100 - frames[1].gas) \div 12

GasSafety ==
  /\ (Stepped /\ ~StartedChild /\ Post.err = "Ok" /\ Post.halted = "None")
       => Post.gas <= Pre.gas - 1
  /\ (Stepped /\ Pre.gas <= 0) => (Post.err = "OutOfGas" /\ ~StartedChild)
  /\ (Stepped /\ StartedChild)
       => (frames[Depth].gas \in 0..Pre.gas /\ Post.gas <= Pre.gas)
  /\ (Returned /\ After.err = "Ok") => After.gas <= Before.gas - 1
  /\ (InLoop /\ Stepped /\ Op(Pre) = JUMP /\ Post.err = "Ok")
       => (Post.pc = 0 /\ (100 - Post.gas) % 12 = 0 /\ LoopIterations <= 20)
  /\ (InLoop /\ Finished)
       => (frames[1].err = "OutOfGas" /\ LoopIterations <= 20)

(***************************************************************************)
(* C19: run eventually returns.  Every step that does not halt the frame   *)
(* lowers its gas by at least 1, a step with gas <= 0 is refused with      *)
(* OutOfGas, a child frame starts with a gas limit between 0 and its       *)
(* parent's gas, and the loop JUMPDEST; PUSH1 0; JUMP with gas limit 100   *)
(* ends with OutOfGas after at most 20 passes.                             *)
(***************************************************************************)
C19_RunReturns == [](GasSafety) /\ <>Finished

\* the loop ran out of gas at the JUMP of its ninth pass
C19_Witness_LoopOutOfGas ==
  /\ InLoop /\ Finished /\ Stepped
  /\ frames[1].err = "OutOfGas"
  /\ frames[1].pc = 3 /\ frames[1].gas = 0
  /\ LoopIterations = 8

(***************************************************************************)
(* C20: MSTORE(o, v) followed by MLOAD(o), with no write overlapping       *)
(* [o, o + 32) in between, pushes v; and MSTORE8(o, v) makes memory[o]     *)
(* equal to the low byte of v and leaves every other byte that already     *)
(* existed unchanged.  o is the offset word, a 256-bit number.             *)
(***************************************************************************)
RoundTripDone(code) ==
  Depth = 1 /\ cfg0.code = code /\ frames[1].halted = "Stop"

C20_MemoryRoundTrip ==
  /\ \A c \in MemCases, v \in MemValues :
       /\ RoundTripDone(RoundTrip(c.o, v)) => frames[1].stack = <<WFromBE(v)>>
       /\ RoundTripDone(RoundTripAround(c.o, v, c.m))
            => frames[1].stack = <<WFromBE(v)>>
  /\ (Stepped /\ Pre.gas > 0 /\ Op(Pre) = MSTORE8 /\ Len(Pre.stack) >= 2
        /\ Post.err = "Ok")
       => /\ \E i \in 0..(Len(Post.memory) - 1) :
               /\ WFromInt(i) = Arg(Pre, 1)
               /\ At(Post.memory, i) = Arg(Pre, 2)[WORD_BYTES]
          /\ \A i \in 0..(Len(Pre.memory) - 1) :
               WFromInt(i) # Arg(Pre, 1) => At(Post.memory, i) = At(Pre.memory, i)

(***************************************************************************)
(* C21: a CALL with value v from a frame at address S to address T, when   *)
(* S's balance is at least v and T is not the precompile, starts a child   *)
(* frame with address T, caller S, call value v, the parent's origin and   *)
(* T's code, in a world where v has been debited from S and credited to T; *)
(* SELFBALANCE in a child pushes the balance of the child's address in     *)
(* that world; a child SELFBALANCE; STOP that was given a value finishes   *)
(* with that balance on its stack, and the parent then pushes 1 and holds  *)
(* empty last_return_data.                                                 *)
(***************************************************************************)
CallFrom(f) == unwrap_or_default(f.address)
\* the parent's accounts with the entries of S and T present
CallAccounts(f) == Entry(Entry(f.world.accounts, CallFrom(f)), CallTarget(f))
Transfers(f) ==
  /\ Op(f) = CALL /\ f.gas > 0 /\ Len(f.stack) >= 7 /\ f.world.some
  /\ WGe(GetAccount(f.world.accounts, CallFrom(f)).balance, Arg(f, 3))
  /\ CallTarget(f) # ALow(4)
NewChild == frames[Len(frames)]
C22_StaticOnlyOnStaticcallChild ==
  /\ (Stepped /\ StartedChild)
       => /\ NewChild.is_static = (Op(Pre) = STATICCALL)
          /\ Post.is_static = Pre.is_static
  /\ (Stepped /\ ~StartedChild) => Post.is_static = Pre.is_static
  /\ Returned => After.is_static = Before.is_static

\* a static frame has made a CALL and the child is not static
C22_Witness_CallFromStaticFrame ==
  /\ Stepped /\ StartedChild /\ Pre.is_static
  /\ Op(Pre) \in {CALL, CALLCODE, DELEGATECALL}
  /\ ~NewChild.is_static

(***************************************************************************)
(* C23: JUMP with the destination word d sets pc to d when d, as a full    *)
(* 256-bit number, is an offset of the JUMPDEST set (and the gas suffices), *)
(* and fails with InvalidJump for every other d, also for d = 2^64 + p     *)
(* with p in the JUMPDEST set.                                             *)
(***************************************************************************)
\* the offsets of the JUMPDEST set whose 256-bit value is the word d
DestOffsets(f, d) == { p \in f.jumpdests : WFromInt(p) = d }
C23_JumpChecksFullWord ==
  (Stepped /\ Pre.gas > 0 /\ Op(Pre) = JUMP /\ Len(Pre.stack) >= 1)
    => IF DestOffsets(Pre, Arg(Pre, 1)) = {}
       THEN Post.err = "InvalidJump"
       ELSE /\ Post.err \in {"Ok", "OutOfGas"}
            /\ Post.err = "Ok" => Post.pc \in DestOffsets(Pre, Arg(Pre, 1))

(***************************************************************************)
(* C24: a PUSHn at position p that completes pushes the n-byte big-endian  *)
(* immediate code[p+1 .. p+n], a byte beyond the end of the code read as   *)
(* zero, zero-extended to 256 bits, and sets pc to p + 1 + n.              *)
(***************************************************************************)
\* the n bytes after position f.pc, zero where the code has ended
Immediate(f, n) ==
  Mk([i \in 1..n |-> IF f.pc + i < Len(f.code) THEN At(f.code, f.pc + i) ELSE 0])
IsPushN(f) == Op(f) \in PUSH1..PUSH32
C24_PushImmediateZeroPadded ==
  (Stepped /\ Pre.gas > 0 /\ IsPushN(Pre) /\ Post.err = "Ok")
    => LET n == Op(Pre) - PUSH1 + 1
       IN /\ Post.stack = Append(Pre.stack, WFromBE(Immediate(Pre, n)))
          /\ Post.pc = Pre.pc + 1 + n

(***************************************************************************)
(* C25: a binary instruction ADD, MUL, SUB, DIV, LT or GT that finds two   *)
(* words on the stack, b on top and a below it, and completes replaces     *)
(* them by one word and leaves the words below unchanged: (a + b), (a * b) *)
(* and (a - b) modulo 2^256, floor(a / b) or 0 when b = 0, 1 iff a < b,    *)
(* 1 iff a > b.  The values are compared with integer arithmetic on the    *)
(* words within 2^15 of 0 or of 2^256.                                     *)
(***************************************************************************)
\* words in 0 .. 2^15 - 1 and in 2^256 - 2^15 .. 2^256 - 1, read as the
\* integers 0 .. 2^15 - 1 and -2^15 .. -1 they are congruent to
NearZero(w) == (\A i \in 1..(WORD_BYTES - 2) : w[i] = 0) /\ w[WORD_BYTES - 1] < 128
NearMax(w) == (\A i \in 1..(WORD_BYTES - 2) : w[i] = 255) /\ w[WORD_BYTES - 1] >= 128
Low16(w) == w[WORD_BYTES - 1] * 256 + w[WORD_BYTES]
Residue(w) == IF NearZero(w) THEN Low16(w) ELSE Low16(w) - 65536
WOfResidue(k) == IF k >= 0 THEN WFromInt(k) ELSE WNot(WFromInt(-k - 1))
\* a < b as 256-bit unsigned numbers, from the residues
UnsignedLess(ka, kb) == IF (ka >= 0) = (kb >= 0) THEN ka < kb ELSE ka >= 0
\* the quotient is an integer the residues determine
QuotientKnown(ka, kb) == ka >= 0 \/ kb <= 1
Quotient(ka, kb) ==
  CASE kb = 0 -> 0
    [] ka >= 0 /\ kb > 0 -> ka \div kb
    [] ka >= 0 /\ kb < 0 -> 0
    [] ka < 0 /\ kb < 0 -> IF ka >= kb THEN 1 ELSE 0
    [] OTHER -> ka
BinaryResult(op, ka, kb) ==
  CASE op = ADD -> WOfResidue(ka + kb)
    [] op = MUL -> WOfResidue(ka * kb)
    [] op = SUB -> WOfResidue(ka - kb)
    [] op = DIV -> WOfResidue(Quotient(ka, kb))
    [] op = LT -> WBool(UnsignedLess(ka, kb))
    [] op = GT -> WBool(UnsignedLess(kb, ka))
BinaryStep ==
  /\ Stepped /\ Pre.gas > 0 /\ Op(Pre) \in BinaryOps
  /\ Len(Pre.stack) >= 2 /\ Post.err = "Ok"
C25_BinaryOperands ==
  BinaryStep
    => LET b == Arg(Pre, 1)
           a == Arg(Pre, 2)
           known == (NearZero(a) \/ NearMax(a)) /\ (NearZero(b) \/ NearMax(b))
                      /\ (Op(Pre) = DIV => QuotientKnown(Residue(a), Residue(b)))
       IN /\ Len(Post.stack) = Len(Pre.stack) - 1
          /\ SubSeq(Post.stack, 1, Len(Post.stack) - 1)
               = SubSeq(Pre.stack, 1, Len(Pre.stack) - 2)
          /\ known => Post.stack[Len(Post.stack)]
                        = BinaryResult(Op(Pre), Residue(a), Residue(b))
          /\ Post.pc = Pre.pc + 1

\* SUB with 5 on top of 3 above another word has pushed 3 - 5 = 2^256 - 2
C25_Witness_SubWraps ==
  /\ BinaryStep /\ Op(Pre) = SUB /\ Len(Pre.stack) = 3
  /\ Arg(Pre, 1) = WFromInt(5) /\ Arg(Pre, 2) = WFromInt(3)
  /\ Post.stack = <<WFromInt(9), WNot(WFromInt(1))>>

(***************************************************************************)
(* C26: in every reachable state the length of every frame's memory is a   *)
(* multiple of 32, and a completed MSIZE has pushed that length.           *)
(***************************************************************************)
C26_MemoryWordAligned ==
  /\ \A i \in 1..Len(frames) : Len(frames[i].memory) % 32 = 0
  /\ (Stepped /\ Pre.gas > 0 /\ Op(Pre) = MSIZE /\ Post.err = "Ok")
       => Post.stack = Append(Pre.stack, WFromInt(Len(Pre.memory)))

(***************************************************************************)
(* C27: a completed MLOAD, MSTORE, MSTORE8, SHA3, LOGn, RETURN or REVERT   *)
(* that touches memory up to byte `size` reduces gas by the instruction's  *)
(* own cost plus the expansion cost C(words(size)) - C(words(len)) when    *)
(* words(size) exceeds the words of the current memory length len, and by  *)
(* the instruction's own cost alone when it does not.                      *)
(***************************************************************************)
MemoryOps == {MLOAD, MSTORE, MSTORE8, SHA3, RETURN, REVERT} \cup (LOG0..LOG4)
\* one past the highest memory byte the instruction touches
AccessEnd(f) ==
  CASE Op(f) \in {MLOAD, MSTORE} -> u256_to_usize(Arg(f, 1)) + 32
    [] Op(f) = MSTORE8 -> u256_to_usize(Arg(f, 1)) + 1
    [] OTHER -> u256_to_usize(Arg(f, 1)) + u256_to_usize(Arg(f, 2))
\* the cost the instruction charges apart from memory expansion
OwnCost(f) ==
  CASE Op(f) \in {MLOAD, MSTORE, MSTORE8} -> 3
    [] Op(f) = SHA3 -> 30 + (u256_to_usize(Arg(f, 2)) + 31) \div 32
    [] Op(f) \in {RETURN, REVERT} -> 0
    [] OTHER -> 8 + (u256_to_usize(Arg(f, 2)) + 31) \div 32
ExpansionCost(f, size) ==
  IF words(size) > words(Len(f.memory))
  THEN mem_cost(words(size)) - mem_cost(words(Len(f.memory)))
  ELSE 0
MemoryStep ==
  /\ Stepped /\ Pre.gas > 0 /\ Op(Pre) \in MemoryOps
  /\ Len(Pre.stack) >= 1 /\ Post.err = "Ok"
  /\ AccessEnd(Pre) < HUGE
C27_MemoryExpansionCharged ==
  MemoryStep
    => Pre.gas - Post.gas = OwnCost(Pre) + ExpansionCost(Pre, AccessEnd(Pre))

(***************************************************************************)
(* C28: a completed SHA3 over a memory slice of length len replaces the    *)
(* two words offset (top) and length by one word and reduces gas by        *)
(* 30 + 6 * ceil(len / 32), to which the memory expansion cost is added    *)
(* (the formula accepts the reduction with and without that addition).     *)
(***************************************************************************)
Sha3Step ==
  /\ Stepped /\ Pre.gas > 0 /\ Op(Pre) = SHA3 /\ Len(Pre.stack) >= 2
  /\ Post.err = "Ok" /\ AccessEnd(Pre) < HUGE
C28_Sha3Gas ==
  Sha3Step
    => LET len == u256_to_usize(Arg(Pre, 2))
           cost == 30 + 6 * words(len)
       IN /\ Len(Post.stack) = Len(Pre.stack) - 1
          /\ SubSeq(Post.stack, 1, Len(Post.stack) - 1)
               = SubSeq(Pre.stack, 1, Len(Pre.stack) - 2)
          /\ Pre.gas - Post.gas
               \in {cost, cost + ExpansionCost(Pre, AccessEnd(Pre))}

(***************************************************************************)
(* C29: a completed CALLDATACOPY or CODECOPY with operands (mem_off,       *)
(* src_off, size) sets memory[mem_off + i] for every i < size to           *)
(* source[src_off + i] when that index is inside the source and to 0       *)
(* otherwise, leaves every other existing memory byte unchanged, and       *)
(* reduces gas by 3 + 3 * ceil(size / 32) plus the memory expansion cost.  *)
(***************************************************************************)
CopySource(f) == IF Op(f) = CALLDATACOPY THEN f.calldata ELSE f.code
\* the operand is below 2^24, so the conversion to usize is exact
ExactUsize(w) == WFromInt(u256_to_usize(w)) = w
CopyStep ==
  /\ Stepped /\ Pre.gas > 0 /\ Op(Pre) \in {CALLDATACOPY, CODECOPY}
  /\ Len(Pre.stack) >= 3 /\ Post.err = "Ok"
  /\ \A k \in 1..3 : ExactUsize(Arg(Pre, k))
CopiedAsClaimed ==
  LET m == u256_to_usize(Arg(Pre, 1))
      d == u256_to_usize(Arg(Pre, 2))
      s == u256_to_usize(Arg(Pre, 3))
      src == CopySource(Pre)
  IN /\ \A i \in 0..(s - 1) :
          At(Post.memory, m + i) = IF d + i < Len(src) THEN At(src, d + i) ELSE 0
     /\ \A j \in 0..(Len(Pre.memory) - 1) :
          (j < m \/ j >= m + s) => At(Post.memory, j) = At(Pre.memory, j)
     /\ Len(Post.stack) = Len(Pre.stack) - 3
C29_CopyToMemory ==
  CopyStep
    => LET m == u256_to_usize(Arg(Pre, 1))
           s == u256_to_usize(Arg(Pre, 3))
       IN /\ CopiedAsClaimed
          /\ Pre.gas - Post.gas = 3 + 3 * words(s) + ExpansionCost(Pre, m + s)

(***************************************************************************)
(* C30: a completed CALLDATALOAD at offset o pushes the big-endian word of *)
(* the 32 bytes calldata[o .. o + 32), a byte at or beyond the end of the  *)
(* calldata read as zero: the bytes that exist are the most significant    *)
(* ones; for o at or beyond the calldata length the word is 0.             *)
(***************************************************************************)
\* calldata[o .. o + 32) with zeros beyond the end
PaddedWord(cd, o) ==
  Mk([i \in 1..WORD_BYTES |-> IF o + i - 1 < Len(cd) THEN At(cd, o + i - 1) ELSE 0])
LoadStep ==
  /\ Stepped /\ Pre.gas > 0 /\ Op(Pre) = CALLDATALOAD
  /\ Len(Pre.stack) >= 1 /\ Post.err = "Ok" /\ ExactUsize(Arg(Pre, 1))
C30_CalldataLoadPadsRight ==
  LoadStep
    => Post.stack = Append(SubSeq(Pre.stack, 1, Len(Pre.stack) - 1),
                           PaddedWord(Pre.calldata, u256_to_usize(Arg(Pre, 1))))

(***************************************************************************)
(* C31: a completed SSTORE of val at key whose current value is cur costs  *)
(* 20000 when cur = 0 and val # 0, costs 5000 and adds 15000 to the refund *)
(* counter when cur # 0 and val = 0, and costs 2900 with the counter       *)
(* unchanged otherwise; no other step, no start and no return of a child   *)
(* changes the refund counter of a frame, and a new frame starts with 0.   *)
(***************************************************************************)
SstoreStep ==
  /\ Stepped /\ ~StartedChild /\ Pre.gas > 0 /\ Op(Pre) = SSTORE
  /\ Len(Pre.stack) >= 2 /\ Post.err = "Ok"
C31_SstoreCostAndRefund ==
  /\ SstoreStep
       => LET cur == sload(Pre, Arg(Pre, 1))
              val == Arg(Pre, 2)
              spent == Pre.gas - Post.gas
              refunded == Post.refund - Pre.refund
          IN CASE WIsZero(cur) /\ ~WIsZero(val) -> spent = 20000 /\ refunded = 0
               [] ~WIsZero(cur) /\ WIsZero(val) -> spent = 5000 /\ refunded = 15000
               [] OTHER -> spent = 2900 /\ refunded = 0
  /\ (Stepped /\ ~SstoreStep) => Post.refund = Pre.refund
  /\ (Stepped /\ StartedChild) => NewChild.refund = 0
  /\ Returned => After.refund = Before.refund
  /\ \A i \in 1..Len(frames) : frames[i].refund >= 0

\* a slot holding a non-zero word has been set to zero
C31_Witness_ClearRefunds ==
  /\ SstoreStep /\ ~WIsZero(sload(Pre, Arg(Pre, 1))) /\ WIsZero(Arg(Pre, 2))
  /\ Pre.gas - Post.gas = 5000 /\ Post.refund = Pre.refund + 15000
  /\ WIsZero(sload(Post, Arg(Pre, 1)))

(***************************************************************************)
(* C32: when a CALL, CALLCODE, DELEGATECALL or STATICCALL starts a child,  *)
(* the child's gas limit is min(requested, A - floor(A / 64)) with         *)
(* A = max(0, gas - base), gas being the parent's gas after the memory     *)
(* expansion charge and base being 9700 for a CALL or CALLCODE with a      *)
(* non-zero value and 700 otherwise, with 2300 added for a value-bearing   *)
(* CALL or CALLCODE; and the parent has been charged base.                 *)
(***************************************************************************)
\* the cost charge_memory deducts for the input range and then the output
\* range of a call
OutOff(f) == u256_to_usize(Arg(f, IF Op(f) \in {CALL, CALLCODE} THEN 6 ELSE 5))
OutLen(f) == u256_to_usize(Arg(f, IF Op(f) \in {CALL, CALLCODE} THEN 7 ELSE 6))
CallExpansion(f) ==
  LET w0 == words(Len(f.memory))
      w1 == Max(w0, words(InOff(f) + InLen(f)))
      w2 == Max(w1, words(OutOff(f) + OutLen(f)))
  IN mem_cost(w2) - mem_cost(w0)
HasValue(f) == Op(f) \in {CALL, CALLCODE} /\ ~WIsZero(Arg(f, 3))
BaseCost(f) == 700 + (IF HasValue(f) THEN 9000 ELSE 0)
\* min(requested, cap) for the 256-bit gas operand
MinRequested(requested, cap) ==
  IF ExactUsize(requested) THEN Min(u256_to_usize(requested), cap) ELSE cap
ForwardedGas(f) ==
  LET A == Max(0, f.gas - CallExpansion(f) - BaseCost(f))
  IN MinRequested(Arg(f, 1), A - A \div 64) + (IF HasValue(f) THEN 2300 ELSE 0)
CallStarted == Stepped /\ StartedChild /\ IsCall(Pre)
C32_ChildGasLimit ==
  CallStarted
    => /\ NewChild.gas = ForwardedGas(Pre)
       /\ Post.gas = Pre.gas - CallExpansion(Pre) - BaseCost(Pre)

(***************************************************************************)
(* C33: across a CALL, CALLCODE or DELEGATECALL that runs a child, the     *)
(* parent's gas falls by the memory expansion cost and the base cost when  *)
(* the child starts, and by the portion forwarded to the child and a flat  *)
(* 40 when the child has returned.  The forwarded portion is read off a    *)
(* child that returned without executing an instruction (empty code): it   *)
(* is the child's gas less the 2300 added for a value-bearing CALL or      *)
(* CALLCODE.                                                               *)
(***************************************************************************)
ForwardingKinds == {"CALL", "CALLCODE", "DELEGATECALL"}
\* the child returned at once, so its gas is still its gas limit
ChildUnused == Child.code = <<>> /\ Child.pc = 0 /\ ~RunErr(Child)
ChildStipend ==
  IF Before.pending.kind \in {"CALL", "CALLCODE"} /\ ~WIsZero(Child.callvalue)
  THEN 2300 ELSE 0
C33_ParentPaysForwardedGas ==
  /\ (CallStarted /\ Op(Pre) # STATICCALL)
       => Post.gas = Pre.gas - CallExpansion(Pre) - BaseCost(Pre)
  /\ (Returned /\ Before.pending.kind \in ForwardingKinds /\ ChildUnused
        /\ After.err = "Ok")
       => After.gas = Before.gas - (Child.gas - ChildStipend) - 40

(***************************************************************************)
(* C34: the child of a DELEGATECALL runs the target's code with the        *)
(* address, caller, call value and origin of the calling frame, in a world *)
(* equal to the caller's (no balance is moved); a completed SSTORE in a    *)
(* frame with a world and an address writes the storage of that address    *)
(* and of no other account; and when the child has halted without Revert   *)
(* or error the calling frame takes the child's world, so that after a     *)
(* child without calls of its own every account other than the calling     *)
(* frame's address, the target included, is as it was.                     *)
(***************************************************************************)
SpawnOps == {CALL, CALLCODE, DELEGATECALL, STATICCALL, CREATE, CREATE2}
\* no byte of the code is a call or create opcode
NoCallCode(code) == \A i \in 1..Len(code) : code[i] \notin SpawnOps
C34_DelegatecallContext ==
  /\ (Stepped /\ StartedChild /\ Op(Pre) = DELEGATECALL)
       => /\ NewChild.address = Pre.address
          /\ NewChild.caller = Pre.caller
          /\ NewChild.callvalue = Pre.callvalue
          /\ NewChild.origin = Pre.origin
          /\ NewChild.code = GetAccount(Pre.world.accounts, CallTarget(Pre)).code
          /\ NewChild.world = Pre.world
          /\ NewChild.storage = EmptyMap
  /\ (SstoreStep /\ Pre.world.some /\ Pre.address.some)
       => /\ Post.world.accounts[Pre.address.v].storage
               = MapInsert(Entry(Pre.world.accounts, Pre.address.v)[Pre.address.v].storage,
                           Arg(Pre, 1), Arg(Pre, 2))
          /\ \A a \in DOMAIN Post.world.accounts \ {Pre.address.v} :
               a \in DOMAIN Pre.world.accounts
                 /\ Post.world.accounts[a] = Pre.world.accounts[a]
          /\ Post.storage = Pre.storage
  /\ (Returned /\ Before.pending.kind = "DELEGATECALL" /\ ChildCommitted)
       => /\ After.world = Child.world
          /\ Child.address = Before.address
          /\ NoCallCode(Child.code)
               => \A a \in DOMAIN Before.world.accounts \ {Before.address.v} :
                    After.world.accounts[a] = Before.world.accounts[a]

\* the child of a DELEGATECALL to B has stored 5 at key 1: the caller A now
\* holds 5 where it held 9, and B's storage is still empty
C34_Witness_StoreLandsInCaller ==
  /\ Returned /\ Before.pending.kind = "DELEGATECALL" /\ ChildCommitted
  /\ Child.code = Store(1, 5) \o <<STOP>>
  /\ Before.address = SomeAddr(AddrA)
  /\ sload(Before, WFromInt(1)) = WFromInt(9)
  /\ sload(After, WFromInt(1)) = WFromInt(5)
  /\ After.world.accounts[AddrB].storage = EmptyMap
  /\ After.world.accounts[AddrB].code = Child.code

(***************************************************************************)
(* C35: a CREATE or CREATE2 from sender S with value v <= balance(S)       *)
(* starts the init code at the new address in a world where v is debited   *)
(* from S and credited to the new account and, for CREATE only, S's nonce  *)
(* is one higher.  When the init code (with no calls of its own) has       *)
(* halted without Revert or error, the creating frame's world shows that   *)
(* nonce, debit and credit, holds the child's return data as the new       *)
(* account's code, and the frame pushes the new address; when the init     *)
(* code reverted or failed, or balance(S) < v, the frame pushes 0 and its  *)
(* world is unchanged.                                                     *)
(***************************************************************************)
IsCreate(f) == Op(f) \in {CREATE, CREATE2}
CreateKinds == {"CREATE", "CREATE2"}
NonceStep(plain) == IF plain THEN 1 ELSE 0
CreateReturned == Returned /\ Before.pending.kind \in CreateKinds /\ After.err = "Ok"
C35_CreateOutcome ==
  /\ (Stepped /\ StartedChild /\ IsCreate(Pre))
       => LET S == CallFrom(Pre)
              v == Arg(Pre, 1)
              init == Slice(Post.memory, u256_to_usize(Arg(Pre, 2)),
                            u256_to_usize(Arg(Pre, 2)) + u256_to_usize(Arg(Pre, 3)))
              created == IF Op(Pre) = CREATE
                         THEN create_address(S, GetAccount(Pre.world.accounts, S).nonce)
                         ELSE create2_address(S, Arg(Pre, 4), init)
              old == Entry(Entry(Pre.world.accounts, S), created)
              new == NewChild.world.accounts
          IN /\ WGe(old[S].balance, v)
             /\ NewChild.address = SomeAddr(created)
             /\ NewChild.caller = SomeAddr(S)
             /\ NewChild.callvalue = v
             /\ NewChild.code = init
             /\ DOMAIN new = DOMAIN old
             /\ \A a \in DOMAIN old :
                  new[a] = [old[a] EXCEPT
                              !.nonce = IF a = S THEN @ + NonceStep(Op(Pre) = CREATE) ELSE @,
                              !.balance = CASE S = created -> @
                                            [] a = S -> WSub(@, v)
                                            [] a = created -> WAdd(@, v)
                                            [] OTHER -> @]
  /\ (CreateReturned /\ ChildCommitted)
       => LET S == Child.caller.v
              created == Child.address.v
              old == Entry(Entry(Before.world.accounts, S), created)
              new == After.world.accounts
          IN /\ After.stack = Append(Before.stack, h160_to_u256(created))
             /\ new = [Entry(Child.world.accounts, created) EXCEPT
                         ![created].code = Child.return_data]
             /\ NoCallCode(Child.code)
                  => /\ new[S].nonce = old[S].nonce + NonceStep(Before.pending.kind = "CREATE")
                     /\ new[S].balance = WSub(old[S].balance, Child.callvalue)
                     /\ new[created].balance = WAdd(old[created].balance, Child.callvalue)
  /\ (CreateReturned /\ ~ChildCommitted)
       => /\ After.stack = Append(Before.stack, WZero)
          /\ After.world = Before.world
  /\ (Stepped /\ ~StartedChild /\ IsCreate(Pre) /\ ShortOfBalance(Pre)
        /\ Post.err = "Ok")
       => /\ Post.stack[Len(Post.stack)] = WZero
          /\ Post.world = Pre.world

\* a CREATE with value 1 whose init code returned one byte: the new account
\* holds that byte as code and the value, the sender's nonce is 1
C35_Witness_CreateDeploys ==
  /\ CreateReturned /\ ChildCommitted /\ Before.pending.kind = "CREATE"
  /\ Child.callvalue = WOne /\ Len(Child.return_data) = 1
  /\ After.world.accounts[Child.address.v].code = Child.return_data
  /\ After.world.accounts[Child.address.v].balance = WOne
  /\ After.world.accounts[AddrA].nonce = 1
  /\ After.world.accounts[AddrA].balance = WFromInt(4)
  /\ After.stack[Len(After.stack)] = h160_to_u256(Child.address.v)

(***************************************************************************)
(* C36: a completed SLOAD pushes the word last stored at the key, or 0 for *)
(* a key never stored: the word in the storage of the frame's account when *)
(* the frame has a world and an address, the word in the frame-local map   *)
(* when it has no world.  A completed SSTORE(k, v) makes k read v, changes *)
(* the value read at no other key and the storage of no other account, and *)
(* writes only the account's storage (with a world) or only the frame's    *)
(* map (without one); no other step of a frame changes its world or map.   *)
(***************************************************************************)
Lookup(m, k) == IF k \in DOMAIN m THEN m[k] ELSE WZero
\* the map a frame's storage instructions work on
StorageOf(f) ==
  IF f.world.some /\ f.address.some
  THEN GetAccount(f.world.accounts, f.address.v).storage
  ELSE f.storage
SampleKeys == { WFromInt(i) : i \in 0..4 }
C36_StorageReadsLastWrite ==
  /\ (Stepped /\ ~StartedChild /\ Pre.gas > 0 /\ Op(Pre) = SLOAD
        /\ Len(Pre.stack) >= 1 /\ Post.err = "Ok")
       => Post.stack = Append(SubSeq(Pre.stack, 1, Len(Pre.stack) - 1),
                              Lookup(StorageOf(Pre), Arg(Pre, 1)))
  /\ SstoreStep
       => /\ Lookup(StorageOf(Post), Arg(Pre, 1)) = Arg(Pre, 2)
          /\ \A k \in (SampleKeys \cup DOMAIN StorageOf(Pre) \cup DOMAIN StorageOf(Post))
                        \ {Arg(Pre, 1)} :
               Lookup(StorageOf(Post), k) = Lookup(StorageOf(Pre), k)
          /\ IF Pre.world.some /\ Pre.address.some
             THEN /\ Post.storage = Pre.storage
                  /\ \A a \in DOMAIN Post.world.accounts \ {Pre.address.v} :
                       Post.world.accounts[a] = Pre.world.accounts[a]
             ELSE Post.world = Pre.world
  /\ (Stepped /\ ~SstoreStep)
       => Post.world = Pre.world /\ Post.storage = Pre.storage
  /\ (Stepped /\ StartedChild) => NewChild.storage = EmptyMap
  /\ \A i \in 1..Len(frames) :
       (frames[i].world.some /\ frames[i].address.some) => frames[i].storage = EmptyMap

\* without a world, SLOAD reads back the 6 stored at key 2 from the frame's map
C36_Witness_LocalRoundTrip ==
  /\ Stepped /\ Op(Pre) = SLOAD /\ Post.err = "Ok" /\ ~Pre.world.some
  /\ Arg(Pre, 1) = WFromInt(2) /\ Pre.storage = MapInsert(EmptyMap, WFromInt(2), WFromInt(6))
  /\ Post.stack = <<WFromInt(6)>>

(***************************************************************************)
(* C37: a completed LOGn (n = 0..4) pops offset, length and n topics and   *)
(* appends one entry with the topics in the order popped and the bytes     *)
(* memory[offset .. offset + length) to the end of the frame's logs; every *)
(* step of a frame keeps the entries it had, in place and unchanged, and a *)
(* step other than LOGn adds none.  The program PUSH1 0x41; PUSH1 0;       *)
(* MSTORE8; PUSH1 1; PUSH1 0; LOG0; STOP, run with a gas limit of 25 or    *)
(* more, halts with Stop and the single entry (no topics, data 0x41).      *)
(***************************************************************************)
IsLog(f) == Op(f) \in LOG0..LOG4
LogStep ==
  /\ Stepped /\ ~StartedChild /\ Pre.gas > 0 /\ IsLog(Pre)
  /\ Len(Pre.stack) >= 2 + (Op(Pre) - LOG0) /\ Post.err = "Ok"
\* memory[o .. o + s), a byte beyond the current end of memory being zero
MemoryBytes(f, o, s) ==
  Mk([i \in 1..s |-> IF o + i - 1 < Len(f.memory) THEN At(f.memory, o + i - 1) ELSE 0])
LogProgram == Store8(0, 65) \o Log0(0, 1) \o <<STOP>>
C37_LogAppendsEntry ==
  /\ LogStep
       => LET n == Op(Pre) - LOG0
              entry == [topics |-> Mk([j \in 1..n |-> Pre.stack[Len(Pre.stack) - 1 - j]]),
                        data |-> MemoryBytes(Pre, u256_to_usize(Arg(Pre, 1)),
                                             u256_to_usize(Arg(Pre, 2)))]
          IN /\ Post.logs = Append(Pre.logs, entry)
             /\ Post.stack = SubSeq(Pre.stack, 1, Len(Pre.stack) - 2 - n)
  /\ Stepped
       => /\ Len(Post.logs) >= Len(Pre.logs)
          /\ SubSeq(Post.logs, 1, Len(Pre.logs)) = Pre.logs
          /\ ~IsLog(Pre) => Post.logs = Pre.logs
  /\ Returned => After.logs = Before.logs
  /\ (Depth = 1 /\ cfg0.code = LogProgram /\ ~cfg0.cfg.world.some
        /\ cfg0.cfg.gas_limit >= 25 /\ ~Running(frames[1]))
       => /\ frames[1].err = "Ok" /\ frames[1].halted = "Stop"
          /\ frames[1].logs = <<[topics |-> <<>>, data |-> <<65>>]>>

\* LOG2 has popped the topics 7 then 8 and logged them in that order with
\* the stored byte 0x41
C37_Witness_TwoTopics ==
  /\ LogStep /\ Op(Pre) = LOG0 + 2
  /\ Post.logs = <<[topics |-> <<WFromInt(7), WFromInt(8)>>, data |-> <<65>>]>>

(***************************************************************************)
(* C38: an instruction executed with fewer words on the stack than it      *)
(* consumes fails with StackUnderflow; this includes ADD, MUL, SUB, DIV,   *)
(* LT, GT, EQ, AND, OR, XOR with fewer than two words and ISZERO, NOT with *)
(* an empty stack.  (SSTORE, LOGn, CREATE and CREATE2 in a static frame    *)
(* are left out: they are rejected before any operand is read.)            *)
(***************************************************************************)
BinopCodes == {ADD, MUL, SUB, DIV, LT, GT, EQ, AND, OR, XOR}
UnopCodes == {ISZERO, NOT}
\* the number of words the instruction at pc pops or reads
Consumes(f) ==
  CASE Op(f) \in BinopCodes -> 2
    [] Op(f) \in UnopCodes -> 1
    [] Op(f) \in {SHA3, MSTORE, MSTORE8, SSTORE, JUMPI, RETURN, REVERT} -> 2
    [] Op(f) \in {BALANCE, EXTCODESIZE, EXTCODEHASH, POP, MLOAD, SLOAD, JUMP,
                  CALLDATALOAD} -> 1
    [] Op(f) \in {CALLDATACOPY, CODECOPY, RETURNDATACOPY, CREATE} -> 3
    [] Op(f) \in {EXTCODECOPY, CREATE2} -> 4
    [] Op(f) \in {CALL, CALLCODE} -> 7
    [] Op(f) \in {DELEGATECALL, STATICCALL} -> 6
    [] Op(f) \in DUP1..DUP16 -> Op(f) - DUP1 + 1
    [] Op(f) \in SWAP1..SWAP16 -> Op(f) - SWAP1 + 2
    [] Op(f) \in LOG0..LOG4 -> 2 + (Op(f) - LOG0)
    [] OTHER -> 0
StaticChecked(f) ==
  f.is_static /\ Op(f) \in {SSTORE, CREATE, CREATE2} \cup (LOG0..LOG4)
ShortStack(f) ==
  f.gas > 0 /\ Len(f.stack) < Consumes(f) /\ ~StaticChecked(f)
C38_ShortStackUnderflows ==
  (Stepped /\ ~StartedChild /\ ShortStack(Pre)) => Post.err = "StackUnderflow"

(***************************************************************************)
(* C39: the gas consumed by all frames of a run, summed over the top-level *)
(* frame and every descendant, never exceeds the top-level gas_limit, and  *)
(* a child frame never starts with more gas than its parent has left at    *)
(* the moment the child is created.                                        *)
(***************************************************************************)
C39_GasBoundsFrameTree ==
  /\ burned <= cfg0.cfg.gas_limit
  /\ (Stepped /\ StartedChild) => NewChild.gas <= Post.gas

\* the first half alone, in states where no frame has failed a charge
C39_TreeWithinLimit ==
  (\A i \in 1..Len(frames) : frames[i].gas >= 0) => burned <= cfg0.cfg.gas_limit

\* the second half alone
C39_ChildWithinParent ==
  (Stepped /\ StartedChild) => NewChild.gas <= Post.gas

(***************************************************************************)
(* C40: in every state of a run, whatever calls and creates have started,  *)
(* succeeded, reverted or failed, the balances of the accounts of the      *)
(* top-level frame's world, and of every live frame's world, add up to     *)
(* the sum of the world the run started with; a balance goes down only at  *)
(* the start of a CALL, CREATE or CREATE2 child, only for the sender, only *)
(* when it is at least the value, and by exactly the value.                *)
(***************************************************************************)
\* a balance as an integer; the worlds of the scenarios hold small balances
BalanceOf(world, a) == u256_to_usize(GetAccount(world.accounts, a).balance)
SmallBalances(world) ==
  \A a \in DOMAIN world.accounts : ExactUsize(world.accounts[a].balance)
RECURSIVE SumOver(_, _)
SumOver(world, as) ==
  IF as = {} THEN 0
  ELSE LET a == CHOOSE x \in as : TRUE
       IN BalanceOf(world, a) + SumOver(world, as \ {a})
TotalBalance(world) == SumOver(world, DOMAIN world.accounts)
Debited(a) ==
  /\ Stepped /\ StartedChild /\ Pre.world.some
  /\ BalanceOf(NewChild.world, a) < BalanceOf(Pre.world, a)
C40_ValueConserved ==
  /\ \A i \in 1..Len(frames) :
       frames[i].world.some
         => /\ cfg0.cfg.world.some
            /\ SmallBalances(frames[i].world)
            /\ TotalBalance(frames[i].world) = TotalBalance(cfg0.cfg.world)
  /\ Returned => \A a \in DOMAIN After.world.accounts :
                   BalanceOf(After.world, a) \in
                     {BalanceOf(Before.world, a), BalanceOf(Child.world, a)}
  /\ (Stepped /\ Pre.world.some)
       => \A a \in DOMAIN Post.world.accounts :
            BalanceOf(Post.world, a) = BalanceOf(Pre.world, a)
  /\ (Stepped /\ StartedChild /\ Pre.world.some)
       => \A a \in DOMAIN NewChild.world.accounts :
            Debited(a)
              => /\ Op(Pre) \in {CALL, CREATE, CREATE2}
                 /\ a = NewChild.caller.v
                 /\ ExactUsize(NewChild.callvalue)
                 /\ BalanceOf(Pre.world, a) >= u256_to_usize(NewChild.callvalue)
                 /\ BalanceOf(NewChild.world, a) =
                      BalanceOf(Pre.world, a) - u256_to_usize(NewChild.callvalue)

\* a child that was sent value has committed into the top-level frame, whose
\* world now holds less for the sender than the world the run started with
C40_Witness_ValueMoved ==
  /\ Returned /\ ChildCommitted /\ Len(frames) = 1
  /\ ~WIsZero(Child.callvalue)
  /\ BalanceOf(frames[1].world, Child.caller.v)
       < BalanceOf(cfg0.cfg.world, Child.caller.v)

====
